---- MODULE Spec2Model ----
(***************************************************************************)
(* Model of statsmodels/tsa/statespace/tools.py: companion matrices, the   *)
(* stability test, the univariate and multivariate stationarity            *)
(* transforms and the shape validators.                                    *)
(*                                                                         *)
(* The functions of tools.py are pure.  A behaviour of the model is one    *)
(* session of a caller: Init draws the arguments from bounded sets, every  *)
(* action applies one function of tools.py to them (or to the result of    *)
(* the previous call) and appends the result to `res`.                     *)
(*                                                                         *)
(* Floating point numbers are modelled by exact rationals <<num, den>>.    *)
(* A root that is not rational and a number beyond the integers of the     *)
(* model checker are the value NaR; the properties are stated about the    *)
(* results that hold no NaR, and the argument sets are chosen among the    *)
(* values on which the roots the code takes are rational.                  *)
(***************************************************************************)
EXTENDS Integers, Sequences, FiniteSets, TLC

VARIABLES pc, arg, res

vars == <<pc, arg, res>>

(***************************************************************************)
(* Python's None where a non-negative integer is expected (nobs).          *)
(***************************************************************************)
None == -1

(***************************************************************************)
(* Exact rational arithmetic: <<n, d>> with d > 0 and gcd(n, d) = 1.       *)
(* Two values with d = 0 stand for what is not a rational:                 *)
(*   NotFinite  an IEEE inf or nan (a division by zero), or a value        *)
(*              computed from one;                                         *)
(*   NaR        a value the model cannot represent: an irrational root or  *)
(*              a numerator or denominator beyond IntLimit, or a value     *)
(*              computed from one.                                         *)
(***************************************************************************)
Abs(i) == IF i < 0 THEN -i ELSE i

RECURSIVE Gcd(_, _)
Gcd(a, b) == IF b = 0 THEN a ELSE Gcd(b, a % b)

Reduce(n, d, g) == <<n \div g, d \div g>>

Rat(n, d) ==
    IF d < 0 THEN Reduce(-n, -d, Gcd(Abs(n), Abs(d)))
    ELSE Reduce(n, d, Gcd(Abs(n), Abs(d)))

Zero == <<0, 1>>
One == <<1, 1>>
NaR == <<0, 0>>
NotFinite == <<1, 0>>

IntLimit == 46340 * 46340

Special(a) == a[2] = 0
Worst(a, b) == IF a = NaR \/ b = NaR THEN NaR ELSE NotFinite

\* |a * b| <= IntLimit \div c
Fits(a, b, c) == a = 0 \/ b = 0 \/ Abs(a) <= (IntLimit \div c) \div Abs(b)

RNeg(a) == IF Special(a) THEN a ELSE <<-a[1], a[2]>>

\* a + b with x = a[2] / g and y = b[2] / g, g the gcd of the denominators
RAddOver(a, b, x, y) ==
    IF Fits(a[1], y, 2) /\ Fits(b[1], x, 2) /\ Fits(x, b[2], 1)
    THEN Rat(a[1] * y + b[1] * x, x * b[2])
    ELSE NaR

RAdd(a, b) ==
    IF Special(a) \/ Special(b) THEN Worst(a, b)
    ELSE RAddOver(a, b, a[2] \div Gcd(a[2], b[2]), b[2] \div Gcd(a[2], b[2]))

RSub(a, b) == RAdd(a, RNeg(b))

\* (n1 / d1) * (n2 / d2), the common factors cancelled
RMulOver(n1, n2, d1, d2) ==
    IF Fits(n1, n2, 1) /\ Fits(d1, d2, 1) THEN <<n1 * n2, d1 * d2>> ELSE NaR

RMulBy(a, b, g1, g2) ==
    RMulOver(a[1] \div g1, b[1] \div g2, a[2] \div g2, b[2] \div g1)

RMul(a, b) ==
    IF Special(a) \/ Special(b) THEN Worst(a, b)
    ELSE IF a[1] = 0 \/ b[1] = 0 THEN Zero
    ELSE RMulBy(a, b, Gcd(Abs(a[1]), b[2]), Gcd(Abs(b[1]), a[2]))

RInv(a) ==
    IF Special(a) THEN a
    ELSE IF a[1] = 0 THEN NotFinite
    ELSE IF a[1] < 0 THEN <<-a[2], -a[1]>>
    ELSE <<a[2], a[1]>>

RDiv(a, b) == RMul(a, RInv(b))

\* a < b; FALSE when either is not a rational
Negative(a) == ~Special(a) /\ a[1] < 0
RLess(a, b) == Negative(RSub(a, b))

RAbs(a) == IF Special(a) THEN a ELSE <<Abs(a[1]), a[2]>>

RECURSIVE ISqrtIn(_, _, _)
ISqrtIn(n, lo, hi) ==
    IF lo >= hi THEN lo
    ELSE LET mid == (lo + hi + 1) \div 2
         IN  IF mid <= n \div mid THEN ISqrtIn(n, mid, hi)
             ELSE ISqrtIn(n, lo, mid - 1)

ISqrt(n) == ISqrtIn(n, 0, IF n < 46340 THEN n ELSE 46340)

\* p / q when it is the root of a, p and q being the integer roots
RSqrtOf(a, p, q) == IF p * p = a[1] /\ q * q = a[2] THEN <<p, q>> ELSE NaR

\* x ** 0.5 (nan for x < 0)
RSqrt(a) ==
    IF Special(a) THEN a
    ELSE IF a[1] < 0 THEN NotFinite
    ELSE RSqrtOf(a, ISqrt(a[1]), ISqrt(a[2]))

\* no entry of the vector, or of the matrix, is NaR
ExactVector(v) == \A i \in 1..Len(v) : v[i] # NaR
ExactMatrix(A) == \A i \in 1..Len(A) : ExactVector(A[i])
ExactList(As) == \A i \in 1..Len(As) : ExactMatrix(As[i])

(***************************************************************************)
(* numpy arrays: a vector is a tuple of rationals, a matrix a tuple of     *)
(* rows.  Tup builds the tuple <<f[1], ..., f[n]>> of a function on 1..n.  *)
(***************************************************************************)
Tup(f) == SubSeq(f, 1, Len(f))

Rows(A) == Len(A)
Cols(A) == IF Len(A) = 0 THEN 0 ELSE Len(A[1])

\* np.zeros((r, c))
zeros(r, c) == Tup([i \in 1..r |-> Tup([j \in 1..c |-> Zero])])

\* np.eye(m)
eye(m) == Tup([i \in 1..m |-> Tup([j \in 1..m |-> IF i = j THEN One ELSE Zero])])

\* A.T
T(A) == Tup([j \in 1..Cols(A) |-> Tup([i \in 1..Rows(A) |-> A[i][j]])])

RECURSIVE RSum(_, _)
RSum(f, n) == IF n = 0 THEN Zero ELSE RAdd(RSum(f, n - 1), f[n])

\* np.dot(A, B)
dot(A, B) ==
    Tup([i \in 1..Rows(A) |-> Tup([j \in 1..Cols(B) |->
        RSum(Tup([k \in 1..Cols(A) |-> RMul(A[i][k], B[k][j])]), Cols(A))])])

MAdd(A, B) ==
    Tup([i \in 1..Rows(A) |-> Tup([j \in 1..Cols(A) |-> RAdd(A[i][j], B[i][j])])])

MSub(A, B) ==
    Tup([i \in 1..Rows(A) |-> Tup([j \in 1..Cols(A) |-> RSub(A[i][j], B[i][j])])])

MNeg(A) ==
    Tup([i \in 1..Rows(A) |-> Tup([j \in 1..Cols(A) |-> RNeg(A[i][j])])])

MScale(c, A) ==
    Tup([i \in 1..Rows(A) |-> Tup([j \in 1..Cols(A) |-> RMul(c, A[i][j])])])

\* A[r0:r1, c0:c1] with Python's half-open, 0-based bounds
Slice(A, r0, r1, c0, c1) ==
    Tup([i \in 1..(r1 - r0) |-> Tup([j \in 1..(c1 - c0) |-> A[r0 + i][c0 + j]])])

\* A[r0:r0+Rows(B), c0:c0+Cols(B)] = B
SetSlice(A, r0, c0, B) ==
    Tup([i \in 1..Rows(A) |-> Tup([j \in 1..Cols(A) |->
        IF /\ i > r0 /\ i <= r0 + Rows(B)
           /\ j > c0 /\ j <= c0 + Cols(B)
        THEN B[i - r0][j - c0] ELSE A[i][j]])])

\* np.concatenate(Ms, axis=1) of matrices of one shape
concatenate(Ms) ==
    Tup([i \in 1..Rows(Ms[1]) |-> Tup([j \in 1..(Len(Ms) * Cols(Ms[1])) |->
        Ms[((j - 1) \div Cols(Ms[1])) + 1][i][((j - 1) % Cols(Ms[1])) + 1]])])

(***************************************************************************)
(* Linear solves by Gauss-Jordan elimination on the augmented matrix       *)
(* [A | B]: [ok |-> TRUE, X |-> the X with A X = B], or [ok |-> FALSE]     *)
(* when A is singular (numpy raises LinAlgError).                          *)
(***************************************************************************)
PivotRow(M, c) ==
    IF \E i \in c..Rows(M) : M[i][c] # Zero
    THEN CHOOSE i \in c..Rows(M) :
            /\ M[i][c] # Zero
            /\ \A k \in c..(i - 1) : M[k][c] = Zero
    ELSE 0

\* row i after rows c and p are exchanged
Exchanged(M, c, p, i) == IF i = c THEN M[p] ELSE IF i = p THEN M[c] ELSE M[i]

\* prow is row p divided by its pivot; it becomes row c and clears column c
EliminateWith(M, c, p, prow) ==
    Tup([i \in 1..Rows(M) |->
        IF i = c THEN prow
        ELSE IF Exchanged(M, c, p, i)[c] = Zero THEN Exchanged(M, c, p, i)
        ELSE Tup([j \in 1..Cols(M) |->
                RSub(Exchanged(M, c, p, i)[j],
                     RMul(Exchanged(M, c, p, i)[c], prow[j]))])])

Eliminate(M, c, p) ==
    EliminateWith(M, c, p, Tup([j \in 1..Cols(M) |-> RDiv(M[p][j], M[p][c])]))

RECURSIVE GaussJordan(_, _)
GaussJordanAt(M, c, p) ==
    IF p = 0 THEN [ok |-> FALSE]
    ELSE GaussJordan(Eliminate(M, c, p), c + 1)

GaussJordan(M, c) ==
    IF c > Rows(M) THEN [ok |-> TRUE, M |-> M]
    ELSE GaussJordanAt(M, c, PivotRow(M, c))

Solved(R, n, columns) ==
    IF R.ok THEN [ok |-> TRUE, X |-> Slice(R.M, 0, n, n, n + columns)]
    ELSE [ok |-> FALSE]

Solve(A, B) ==
    Solved(GaussJordan(Tup([i \in 1..Rows(A) |-> A[i] \o B[i]]), 1),
           Rows(A), Cols(B))

\* np.linalg.inv(A)
inv(A) == Solve(A, eye(Rows(A)))

(***************************************************************************)
(* scipy.linalg.cholesky(A, lower=True), scipy.linalg.cho_factor and       *)
(* np.linalg.cholesky: [ok |-> TRUE, L |-> the lower factor], or           *)
(* [ok |-> FALSE, type |-> "LinAlgError"] when A is not positive definite. *)
(* A pivot that is NaR or whose root is NaR is outside the model:           *)
(* [ok |-> FALSE, type |-> "Unrepresentable"].                             *)
(***************************************************************************)
Failed(type) == [ok |-> FALSE, type |-> type]

RECURSIVE cholesky_columns(_, _, _)
\* column j of the factor, d its diagonal entry
cholesky_column(A, L, j, d) ==
    IF d = NaR THEN Failed("Unrepresentable")
    ELSE cholesky_columns(A,
            Tup([i \in 1..Rows(A) |-> Tup([c \in 1..Rows(A) |->
                IF c # j THEN L[i][c]
                ELSE IF i < j THEN Zero
                ELSE IF i = j THEN d
                ELSE RDiv(RSub(A[i][j],
                               RSum(Tup([k \in 1..(j - 1) |->
                                        RMul(L[i][k], L[j][k])]), j - 1)),
                          d)])]),
            j + 1)

cholesky_pivot(A, L, j, pivot) ==
    IF pivot = NaR THEN Failed("Unrepresentable")
    ELSE IF ~RLess(Zero, pivot) THEN Failed("LinAlgError")
    ELSE cholesky_column(A, L, j, RSqrt(pivot))

cholesky_columns(A, L, j) ==
    IF j > Rows(A) THEN [ok |-> TRUE, L |-> L]
    ELSE cholesky_pivot(A, L, j,
            RSub(A[j][j],
                 RSum(Tup([k \in 1..(j - 1) |-> RMul(L[j][k], L[j][k])]),
                      j - 1)))

cholesky(A) == cholesky_columns(A, zeros(Rows(A), Rows(A)), 1)

\* scipy.linalg.solve_triangular(L, B, lower=True, trans='N' or 'T'):
\* the X with L X = B, or with L' X = B
solve_triangular(L, B, trans) == Solve(IF trans THEN T(L) ELSE L, B).X

\* scipy.linalg.cho_solve((L, True), B): the X with (L L') X = B
cho_solve(L, B) == Solve(dot(L, T(L)), B).X

(***************************************************************************)
(* _constrain_sv_less_than_one_python: the list <<P_1, ..., P_order>> with *)
(* P_i = B^{-1} A_i, B the lower Cholesky factor of I + A_i A_i'.          *)
(***************************************************************************)
\* the Cholesky factor taken of I instead of I + A A'
constrain_sv_factor_of_identity(A, k_endog) == cholesky(eye(k_endog))

\* B, lower = linalg.cho_factor(eye + np.dot(A, A.T), lower=True)
constrain_sv_factor(A, k_endog) ==
    cholesky(MAdd(eye(k_endog), dot(A, T(A))))

RECURSIVE constrain_sv_loop(_, _, _, _, _)
\* constrained.append(linalg.solve_triangular(B, A, lower=lower))
constrain_sv_append(unconstrained, order, k_endog, i, constrained, B) ==
    IF ~B.ok THEN B
    ELSE constrain_sv_loop(unconstrained, order, k_endog, i + 1,
            Append(constrained,
                   solve_triangular(B.L, unconstrained[i + 1], FALSE)))

constrain_sv_loop(unconstrained, order, k_endog, i, constrained) ==
    IF i = order THEN [ok |-> TRUE, value |-> constrained]
    ELSE constrain_sv_append(unconstrained, order, k_endog, i, constrained,
            constrain_sv_factor(unconstrained[i + 1], k_endog))

_constrain_sv_less_than_one_python(unconstrained, order, k_endog) ==
    constrain_sv_loop(unconstrained, order, k_endog, 0, <<>>)

(***************************************************************************)
(* _compute_coefficients_from_multivariate_pacf_python (flattened layout:  *)
(* `forwards`, `backwards` are k_endog x (k_endog * order),                *)
(* `autocovariances` is k_endog x (k_endog * (order + 1))).                *)
(***************************************************************************)
SurrogateExponent == 10

RECURSIVE Pow(_, _)
Pow(b, e) == IF e = 0 THEN 1 ELSE b * Pow(b, e - 1)

\* np.eye(k_endog) * (order + k_endog)**10
surrogate_variance(order, k_endog) ==
    MScale(<<Pow(order + k_endog, SurrogateExponent), 1>>, eye(k_endog))

\* A[:, i*k:(i+1)*k]
Block(A, i, k) == Slice(A, 0, Rows(A), i * k, (i + 1) * k)

\* A[:, i*k:(i+1)*k] = B
SetBlock(A, i, k, B) == SetSlice(A, 0, i * k, B)

\* for k in range(s): the Levinson update of the blocks k < s
RECURSIVE pacf_update(_, _, _, _, _, _)
pacf_update(st, prev_forwards, prev_backwards, s, k_endog, k) ==
    IF k = s THEN st
    ELSE pacf_update(
        [st EXCEPT
            !.forwards = SetBlock(@, k, k_endog,
                MSub(Block(prev_forwards, k, k_endog),
                     dot(Block(st.forwards, s, k_endog),
                         Block(prev_backwards, s - k - 1, k_endog)))),
            !.backwards = SetBlock(@, k, k_endog,
                MSub(Block(prev_backwards, k, k_endog),
                     dot(Block(st.backwards, s, k_endog),
                         Block(prev_forwards, s - k - 1, k_endog)))),
            !.autocovariances = SetBlock(@, s + 1, k_endog,
                MAdd(Block(@, s + 1, k_endog),
                     dot(Block(@, k + 1, k_endog),
                         T(Block(prev_forwards, s - k - 1, k_endog)))))],
        prev_forwards, prev_backwards, s, k_endog, k + 1)

\* the end of a pass: the variances are refactored
pacf_step_factors(updated, forward_variance, backward_variance, forward_factors, backward_factors) ==
    IF ~forward_factors.ok THEN forward_factors
    ELSE IF ~backward_factors.ok THEN backward_factors
    ELSE [updated EXCEPT
            !.forward_variance = forward_variance,
            !.backward_variance = backward_variance,
            !.forward_factors = forward_factors.L,
            !.backward_factors = backward_factors.L]

pacf_step_refactor(updated, forward_variance, backward_variance) ==
    pacf_step_factors(updated, forward_variance, backward_variance,
                      cholesky(forward_variance), cholesky(backward_variance))

\* the variances of a pass, from the blocks as the Levinson update left them
pacf_step_variances(st, updated, tmp, s, k_endog) ==
    pacf_step_refactor(updated,
        MSub(st.forward_variance,
             dot(tmp, T(Block(updated.forwards, s, k_endog)))),
        MSub(st.backward_variance,
             dot(dot(Block(updated.backwards, s, k_endog),
                     st.forward_variance),
                 T(Block(updated.backwards, s, k_endog)))))

\* tmp = np.dot(forwards[s], backward_variance), the new autocovariance
\* block and the Levinson update
pacf_step_update(st, forward, backward, tmp, s, k_endog) ==
    pacf_step_variances(st,
        pacf_update([st EXCEPT
                        !.forwards = SetBlock(@, s, k_endog, forward),
                        !.backwards = SetBlock(@, s, k_endog, backward),
                        !.autocovariances = SetBlock(@, s + 1, k_endog, T(tmp))],
                    st.forwards, st.backwards, s, k_endog, 0),
        tmp, s, k_endog)

pacf_step_new(st, forward, backward, s, k_endog) ==
    pacf_step_update(st, forward, backward,
                     dot(forward, st.backward_variance), s, k_endog)

\* one pass of `for s in range(order)`, P the partial autocorrelation s
pacf_step_block(st, P, s, k_endog) ==
    pacf_step_new(st,
        dot(st.forward_factors,
            T(solve_triangular(st.backward_factors, T(P), TRUE))),
        dot(st.backward_factors,
            T(solve_triangular(st.forward_factors, P, TRUE))),
        s, k_endog)

pacf_step(st, partial_autocorrelations, s, k_endog) ==
    pacf_step_block(st, Block(partial_autocorrelations, s, k_endog), s, k_endog)

RECURSIVE pacf_loop(_, _, _, _, _)
pacf_loop(st, partial_autocorrelations, order, k_endog, s) ==
    IF s = order \/ ~st.ok THEN st
    ELSE pacf_loop(pacf_step(st, partial_autocorrelations, s, k_endog),
                   partial_autocorrelations, order, k_endog, s + 1)

\* for s in range(order): forwards[s] = transform . forwards[s] . inv_transform
RECURSIVE pacf_conjugate(_, _, _, _, _, _)
pacf_conjugate(forwards, transform, inv_transform, order, k_endog, s) ==
    IF s = order THEN forwards
    ELSE pacf_conjugate(
            SetBlock(forwards, s, k_endog,
                     dot(dot(transform, Block(forwards, s, k_endog)),
                         inv_transform)),
            transform, inv_transform, order, k_endog, s + 1)

\* the state before the loop, error_variance_factor the Cholesky factor of
\* the variance the recursion starts from
pacf_start(error_variance, error_variance_factor, order, k_endog) ==
    IF ~error_variance_factor.ok THEN error_variance_factor
    ELSE [ok |-> TRUE,
          forward_variance |-> error_variance,
          backward_variance |-> error_variance,
          autocovariances |->
            SetBlock(zeros(k_endog, k_endog * (order + 1)), 0, k_endog,
                     error_variance),
          forwards |-> zeros(k_endog, k_endog * order),
          backwards |-> zeros(k_endog, k_endog * order),
          forward_factors |-> error_variance_factor.L,
          backward_factors |-> error_variance_factor.L]

\* the state before the loop and the loop
pacf_recursion(partial_autocorrelations, error_variance, order, k_endog) ==
    pacf_loop(pacf_start(error_variance, cholesky(error_variance),
                         order, k_endog),
              partial_autocorrelations, order, k_endog, 0)

\* transform = np.dot(initial_variance_factor,
\*                    np.linalg.inv(transformed_variance_factor))
pacf_transformed(forwards, variance, transform, order, k_endog) ==
    [ok |-> TRUE,
     value |-> <<pacf_conjugate(forwards, transform, inv(transform).X,
                                order, k_endog, 0),
                 variance>>]

\* the correction with transform = L M^{-1}, the inverse of the one computed
pacf_correction_inverted(forwards, variance, initial_variance_factor, transformed_variance_factor, order, k_endog) ==
    IF ~initial_variance_factor.ok THEN initial_variance_factor
    ELSE IF ~transformed_variance_factor.ok THEN transformed_variance_factor
    ELSE pacf_transformed(forwards, variance,
            dot(transformed_variance_factor.L,
                inv(initial_variance_factor.L).X),
            order, k_endog)

pacf_correction(forwards, variance, initial_variance_factor, transformed_variance_factor, order, k_endog) ==
    IF ~initial_variance_factor.ok THEN initial_variance_factor
    ELSE IF ~transformed_variance_factor.ok THEN transformed_variance_factor
    ELSE pacf_transformed(forwards, variance,
            dot(initial_variance_factor.L,
                inv(transformed_variance_factor.L).X),
            order, k_endog)

\* variance = forward_variance, and the correction of the coefficients
\* when the variance is not transformed
pacf_result(st, initial_variance, order, k_endog, transform_variance) ==
    IF ~st.ok THEN st
    ELSE IF transform_variance
        THEN [ok |-> TRUE, value |-> <<st.forwards, st.forward_variance>>]
    ELSE pacf_correction(st.forwards, st.forward_variance,
                         cholesky(initial_variance),
                         cholesky(st.forward_variance), order, k_endog)

\* the result is [ok |-> TRUE, value |-> <<forwards, variance>>]
_compute_coefficients_from_multivariate_pacf_python(partial_autocorrelations_list, error_variance, order, k_endog, transform_variance) ==
    pacf_result(
        pacf_recursion(concatenate(partial_autocorrelations_list),
                       IF transform_variance THEN error_variance
                       ELSE surrogate_variance(order, k_endog),
                       order, k_endog),
        error_variance, order, k_endog, transform_variance)

(***************************************************************************)
(* companion_matrix                                                        *)
(*                                                                         *)
(* The argument is [form |-> "int", n |-> an integer] or                   *)
(* [form |-> "list" | "tuple" | "array", coef |-> <<c_0, ..., c_n>>] with  *)
(* every element a scalar [k |-> "s", v |-> <<<<q>>>>], an ndarray         *)
(* [k |-> "a", v |-> matrix] or a nested list [k |-> "l", v |-> matrix].   *)
(* The result holds the returned matrix or the exception raised, and the   *)
(* caller's `polynomial` object as the call leaves it.                     *)
(***************************************************************************)
\* a scalar is held as a 1 x 1 array, which ScalarOf reads
Scalar(q) == [k |-> "s", v |-> <<<<q>>>>]
ScalarOf(c) == c.v[1][1]
NdArray(A) == [k |-> "a", v |-> A]
NestedList(A) == [k |-> "l", v |-> A]

Return(value, polynomial) ==
    [raised |-> FALSE, value |-> value, polynomial |-> polynomial]

Raise(type, polynomial) ==
    [raised |-> TRUE, type |-> type, polynomial |-> polynomial]

\* companion_frame with the ones next to the diagonal whatever the block size
companion_frame_unit_offset(n, m) ==
    Tup([i \in 1..(n * m) |-> Tup([j \in 1..(n * m) |->
        IF i <= (n - 1) * m /\ j = i + 1 THEN One ELSE Zero])])

\* matrix = np.zeros((n * m, n * m)); idx = np.diag_indices((n - 1) * m);
\* matrix[(idx[0], idx[1] + m)] = 1
companion_frame(n, m) ==
    Tup([i \in 1..(n * m) |-> Tup([j \in 1..(n * m) |->
        IF i <= (n - 1) * m /\ j = i + m THEN One ELSE Zero])])

\* the first column without the sign: polynomial[1:] / polynomial[0]
companion_scalar_not_negated(matrix, coef, n) ==
    SetSlice(matrix, 0, 0,
             Tup([i \in 1..n |-> <<RDiv(ScalarOf(coef[i + 1]), ScalarOf(coef[1]))>>]))

\* matrix[:, 0] = -polynomial[1:] / polynomial[0]
companion_scalar(matrix, coef, n) ==
    SetSlice(matrix, 0, 0,
             Tup([i \in 1..n |-> <<RNeg(RDiv(ScalarOf(coef[i + 1]), ScalarOf(coef[1])))>>]))

\* for i in range(n): matrix[i*m:(i+1)*m, :m] = block(i)
RECURSIVE companion_blocks(_, _, _, _, _)
companion_blocks(matrix, block, n, m, i) ==
    IF i = n THEN matrix
    ELSE companion_blocks(SetSlice(matrix, i * m, 0, block[i + 1]),
                          block, n, m, i + 1)

companion_matrix(polynomial) ==
    IF polynomial.form = "int" THEN
        LET n == polynomial.n
        IN  IF n < 0 THEN Raise("ValueError", polynomial)
            ELSE Return(companion_frame(n, 1), polynomial)
    ELSE
        LET coef == polynomial.coef
            n == Len(coef) - 1
            m == IF polynomial.form \in {"list", "tuple"} /\ coef[2].k # "s"
                 THEN Len(coef[2].v) ELSE 1
            matrix == companion_frame(n, m)
        IN  IF n < 1 THEN Raise("ValueError", polynomial)
            ELSE IF m = 1 THEN
                Return(companion_scalar(matrix, coef, n), polynomial)
            ELSE IF coef[1].k = "a" THEN
                \* `polynomial[0] == 1` is an array: its truth value is
                \* ambiguous
                Raise("ValueError", polynomial)
            ELSE IF coef[1].k = "s" /\ ScalarOf(coef[1]) = One THEN
                IF polynomial.form = "tuple" THEN
                    \* polynomial[0] = np.eye(m) on a tuple
                    Raise("TypeError", polynomial)
                ELSE
                    LET assigned == [polynomial EXCEPT
                                        !.coef[1] = NdArray(eye(m))]
                    IN  IF \E i \in 1..n : coef[i + 1].k # "a"
                        THEN Raise("AttributeError", assigned)
                        ELSE Return(
                            companion_blocks(matrix,
                                Tup([i \in 1..n |-> MNeg(T(coef[i + 1].v))]),
                                n, m, 0),
                            assigned)
            ELSE
                LET inverse == IF coef[1].k = "s" THEN [ok |-> FALSE]
                               ELSE inv(coef[1].v)
                IN  IF ~inverse.ok THEN Raise("LinAlgError", polynomial)
                    ELSE Return(
                        companion_blocks(matrix,
                            Tup([i \in 1..n |->
                                MNeg(T(dot(inverse.X, coef[i + 1].v)))]),
                            n, m, 0),
                        polynomial)

(***************************************************************************)
(* validate_matrix_shape, validate_vector_shape                            *)
(*                                                                         *)
(* A call returns [raised |-> FALSE] or the ValueError it raised: which    *)
(* check raised it and the values the message was formatted with: `name`,  *)
(* and the tuples `expected` and `actual`, empty when the message holds no *)
(* such value.                                                             *)
(***************************************************************************)
Returned == [raised |-> FALSE]

ValueError(kind, name, expected, actual) ==
    [raised |-> TRUE, type |-> "ValueError", kind |-> kind, name |-> name,
     expected |-> expected, actual |-> actual]

Last(s) == s[Len(s)]

\* validate_matrix_shape without the check made while nobs is unknown
validate_matrix_shape_no_unknown_check(name, shape, nrows, ncols, nobs) ==
    LET ndim == Len(shape)
    IN  IF ndim \notin {2, 3}
            THEN ValueError("ndim", name, <<2, 3>>, <<ndim>>)
        ELSE IF ~(shape[1] = nrows)
            THEN ValueError("rows", name, <<nrows>>, <<shape[1]>>)
        ELSE IF ~(shape[2] = ncols)
            THEN ValueError("columns", name, <<ncols>>, <<shape[2]>>)
        ELSE IF ndim = 3 /\ nobs # None /\ ~(Last(shape) \in {1, nobs})
            THEN ValueError("nobs_mismatch", name, <<nobs>>, shape)
        ELSE Returned

validate_matrix_shape(name, shape, nrows, ncols, nobs) ==
    LET ndim == Len(shape)
    IN  IF ndim \notin {2, 3}
            THEN ValueError("ndim", name, <<2, 3>>, <<ndim>>)
        ELSE IF ~(shape[1] = nrows)
            THEN ValueError("rows", name, <<nrows>>, <<shape[1]>>)
        ELSE IF ~(shape[2] = ncols)
            THEN ValueError("columns", name, <<ncols>>, <<shape[2]>>)
        ELSE IF nobs = None /\ ~(ndim = 2 \/ Last(shape) = 1)
            THEN ValueError("nobs_unknown", name, <<>>, <<>>)
        ELSE IF ndim = 3 /\ nobs # None /\ ~(Last(shape) \in {1, nobs})
            THEN ValueError("nobs_mismatch", name, <<nobs>>, shape)
        ELSE Returned

\* validate_vector_shape that takes a trailing dimension of 1 for time-varying
validate_vector_shape_strict_nobs(name, shape, nrows, nobs) ==
    LET ndim == Len(shape)
    IN  IF ndim \notin {1, 2}
            THEN ValueError("ndim", name, <<1, 2>>, <<ndim>>)
        ELSE IF ~(shape[1] = nrows)
            THEN ValueError("rows", name, <<nrows>>, <<shape[1]>>)
        ELSE IF nobs = None /\ ~(ndim = 1)
            THEN ValueError("nobs_unknown", name, <<>>, <<>>)
        ELSE IF ndim = 2 /\ ~(shape[2] = nobs)
            THEN ValueError("nobs_mismatch", name, <<nobs>>, shape)
        ELSE Returned

\* validate_vector_shape whose row message holds the operands swapped
validate_vector_shape_swapped_rows(name, shape, nrows, nobs) ==
    LET ndim == Len(shape)
    IN  IF ndim \notin {1, 2}
            THEN ValueError("ndim", name, <<1, 2>>, <<ndim>>)
        ELSE IF ~(shape[1] = nrows)
            THEN ValueError("rows", name, <<shape[1]>>, <<nrows>>)
        ELSE IF nobs = None /\ ~(ndim = 1 \/ Last(shape) = 1)
            THEN ValueError("nobs_unknown", name, <<>>, <<>>)
        ELSE IF ndim = 2 /\ ~(shape[2] = 1 \/ shape[2] = nobs)
            THEN ValueError("nobs_mismatch", name, <<nobs>>, shape)
        ELSE Returned

validate_vector_shape(name, shape, nrows, nobs) ==
    LET ndim == Len(shape)
    IN  IF ndim \notin {1, 2}
            THEN ValueError("ndim", name, <<1, 2>>, <<ndim>>)
        ELSE IF ~(shape[1] = nrows)
            THEN ValueError("rows", name, <<nrows>>, <<shape[1]>>)
        ELSE IF nobs = None /\ ~(ndim = 1 \/ Last(shape) = 1)
            THEN ValueError("nobs_unknown", name, <<>>, <<>>)
        ELSE IF ndim = 2 /\ ~(shape[2] = 1 \/ shape[2] = nobs)
            THEN ValueError("nobs_mismatch", name, <<nobs>>, shape)
        ELSE Returned

(***************************************************************************)
(* _unconstrain_sv_less_than_one: A_i = B P_i with B^{-1} the lower        *)
(* Cholesky factor of I - P_i P_i'.                                        *)
(***************************************************************************)
RECURSIVE unconstrain_sv_loop(_, _, _, _, _)
\* a matrix whose factorization fails is skipped and the loop goes on
unconstrain_sv_append_skipping(constrained, order, k_endog, i, unconstrained, B_inv) ==
    IF ~B_inv.ok
    THEN unconstrain_sv_loop(constrained, order, k_endog, i + 1, unconstrained)
    ELSE unconstrain_sv_loop(constrained, order, k_endog, i + 1,
            Append(unconstrained,
                   solve_triangular(B_inv.L, constrained[i + 1], FALSE)))

\* unconstrained.append(linalg.solve_triangular(B_inv, constrained[i],
\*                                              lower=lower))
unconstrain_sv_append(constrained, order, k_endog, i, unconstrained, B_inv) ==
    IF ~B_inv.ok THEN B_inv
    ELSE unconstrain_sv_loop(constrained, order, k_endog, i + 1,
            Append(unconstrained,
                   solve_triangular(B_inv.L, constrained[i + 1], FALSE)))

\* B_inv, lower = linalg.cho_factor(eye - np.dot(P, P.T), lower=True)
unconstrain_sv_loop(constrained, order, k_endog, i, unconstrained) ==
    IF i = order THEN [ok |-> TRUE, value |-> unconstrained]
    ELSE unconstrain_sv_append(constrained, order, k_endog, i, unconstrained,
            cholesky(MSub(eye(k_endog),
                          dot(constrained[i + 1], T(constrained[i + 1])))))

_unconstrain_sv_less_than_one(constrained, order, k_endog) ==
    unconstrain_sv_loop(constrained, order, k_endog, 0, <<>>)

(***************************************************************************)
(* scipy.linalg.solve_discrete_lyapunov(a, q): the X with                  *)
(* X = a X a' + q, from the linear system (I - a (x) a) vec(X) = vec(q).   *)
(***************************************************************************)
\* vec(X) back as the n x n matrix
lyapunov_solution(x, n) ==
    IF ~x.ok THEN Failed("LinAlgError")
    ELSE [ok |-> TRUE,
          X |-> Tup([i \in 1..n |-> Tup([j \in 1..n |->
                    x.X[(i - 1) * n + j][1]])])]

solve_discrete_lyapunov(a, q) ==
    LET n == Rows(a)
        row(e) == ((e - 1) \div n) + 1
        col(e) == ((e - 1) % n) + 1
    IN  lyapunov_solution(
            Solve(Tup([e \in 1..(n * n) |-> Tup([f \in 1..(n * n) |->
                        RSub(IF e = f THEN One ELSE Zero,
                             RMul(a[row(e)][row(f)], a[col(e)][col(f)]))])]),
                  Tup([e \in 1..(n * n) |-> <<q[row(e)][col(e)]>>])),
            n)

(***************************************************************************)
(* _compute_multivariate_acovf_from_coefficients                           *)
(***************************************************************************)
\* for i in range(maxlag - (order-1)):
\*     stacked_cov = companion . stacked_cov
\*     autocovariances += [stacked_cov[:k_endog, -k_endog:]]
RECURSIVE acovf_extend(_, _, _, _, _, _)
acovf_extend_with(autocovariances, next_cov, companion, k_endog, count, i) ==
    acovf_extend(
        Append(autocovariances,
               Slice(next_cov, 0, k_endog,
                     Cols(next_cov) - k_endog, Cols(next_cov))),
        next_cov, companion, k_endog, count, i + 1)

acovf_extend(autocovariances, stacked_cov, companion, k_endog, count, i) ==
    IF i >= count THEN autocovariances
    ELSE acovf_extend_with(autocovariances, dot(companion, stacked_cov),
                           companion, k_endog, count, i)

Min(a, b) == IF a < b THEN a ELSE b

\* the first block row taken whole, for i in range(order)
acovf_from_stacked_whole_row(stacked_cov, companion, order, k_endog, maxlag) ==
    IF ~stacked_cov.ok THEN stacked_cov
    ELSE [ok |-> TRUE,
          value |-> acovf_extend(
            Tup([i \in 1..order |->
                    Slice(stacked_cov.X, 0, k_endog,
                          (i - 1) * k_endog, i * k_endog)]),
            stacked_cov.X, companion, k_endog, maxlag - (order - 1), 0)]

\* autocovariances = [stacked_cov[:k_endog, i*k_endog:(i+1)*k_endog]
\*                    for i in range(min(order, maxlag+1))], and the
\* lags beyond the order
acovf_from_stacked(stacked_cov, companion, order, k_endog, maxlag) ==
    IF ~stacked_cov.ok THEN stacked_cov
    ELSE [ok |-> TRUE,
          value |-> acovf_extend(
            Tup([i \in 1..Min(order, maxlag + 1) |->
                    Slice(stacked_cov.X, 0, k_endog,
                          (i - 1) * k_endog, i * k_endog)]),
            stacked_cov.X, companion, k_endog, maxlag - (order - 1), 0)]

\* selected_variance[:k_endog, :k_endog] = error_variance
\* stacked_cov = linalg.solve_discrete_lyapunov(companion, selected_variance)
acovf_from_companion(companion, error_variance, order, k_endog, maxlag) ==
    acovf_from_stacked(
        solve_discrete_lyapunov(companion,
            SetSlice(zeros(Rows(companion), Cols(companion)), 0, 0,
                     error_variance)),
        companion, order, k_endog, maxlag)

acovf_from_made(made, error_variance, order, k_endog, maxlag) ==
    IF made.raised THEN Failed(made.type)
    ELSE acovf_from_companion(T(made.value), error_variance, order, k_endog,
                              maxlag)

\* maxlag = None is passed as order - 1 (the default set at tools.py:877)
_compute_multivariate_acovf_from_coefficients(coefficients, error_variance, order, k_endog, maxlag) ==
    acovf_from_made(
        companion_matrix(
            [form |-> "list",
             coef |-> <<Scalar(One)>> \o
                      Tup([i \in 1..order |-> NdArray(MNeg(coefficients[i]))])]),
        error_variance, order, k_endog, maxlag)

(***************************************************************************)
(* _compute_multivariate_pacf_from_coefficients (lists of matrices,        *)
(* 1-based here: autocovariances[j + 1] is the code's autocovariances[j]). *)
(***************************************************************************)
\* list.insert(k, x) with the code's 0-based k
Insert(list, k, x) == SubSeq(list, 1, k) \o <<x>> \o SubSeq(list, k + 1, Len(list))

RECURSIVE MSubAll(_, _, _)
\* A - terms[1] - ... - terms[n]
MSubAll(A, terms, n) ==
    IF n = 0 THEN A ELSE MSub(MSubAll(A, terms, n - 1), terms[n])

RECURSIVE pacf_inverse_update(_, _, _, _, _, _)
pacf_inverse_update(forwards, backwards, prev_forwards, prev_backwards, s, k) ==
    IF k = s THEN <<forwards, backwards>>
    ELSE pacf_inverse_update(
            Insert(forwards, k,
                   MSub(prev_forwards[k + 1],
                        dot(forwards[Len(forwards)], prev_backwards[s - k]))),
            Insert(backwards, k,
                   MSub(prev_backwards[k + 1],
                        dot(backwards[Len(backwards)], prev_forwards[s - k]))),
            prev_forwards, prev_backwards, s, k + 1)

\* partial_autocorrelations.append(linalg.solve_triangular(
\*     forward_factors, np.dot(forwards[s], backward_factors), lower=True))
pacf_inverse_filled(st, s, forward_factors, backward_factors, filled) ==
    [ok |-> TRUE,
     forwards |-> filled[1],
     backwards |-> filled[2],
     partial_autocorrelations |->
        Append(st.partial_autocorrelations,
               solve_triangular(forward_factors,
                                dot(filled[1][s + 1], backward_factors),
                                FALSE))]

\* the new last blocks by cho_solve, then the update of the blocks k < s
pacf_inverse_solve(st, autocovariances, s, forward_factors, backward_factors, tmp_sum) ==
    pacf_inverse_filled(st, s, forward_factors, backward_factors,
        pacf_inverse_update(
            <<IF s = 0
              THEN T(cho_solve(forward_factors, autocovariances[2]))
              ELSE T(cho_solve(backward_factors, T(tmp_sum)))>>,
            <<IF s = 0
              THEN T(cho_solve(backward_factors, T(autocovariances[2])))
              ELSE T(cho_solve(forward_factors, tmp_sum))>>,
            st.forwards, st.backwards, s, 0))

\* tmp_sum = autocovariances[s+1].T
\*           - sum of prev_forwards[k] . autocovariances[s-k].T
pacf_inverse_factors(st, autocovariances, s, forward_factors, backward_factors) ==
    IF ~forward_factors.ok THEN forward_factors
    ELSE IF ~backward_factors.ok THEN backward_factors
    ELSE pacf_inverse_solve(st, autocovariances, s,
            forward_factors.L, backward_factors.L,
            MSubAll(T(autocovariances[s + 2]),
                    Tup([k \in 1..s |->
                        dot(st.forwards[k], T(autocovariances[s - k + 2]))]),
                    s))

\* one pass of `for s in range(order)`: the variances and their factors
pacf_inverse_step(st, autocovariances, s) ==
    pacf_inverse_factors(st, autocovariances, s,
        cholesky(MSubAll(autocovariances[1],
                    Tup([k \in 1..s |->
                        dot(st.forwards[k], autocovariances[k + 1])]), s)),
        cholesky(MSubAll(T(autocovariances[1]),
                    Tup([k \in 1..s |->
                        dot(st.backwards[k], T(autocovariances[k + 1]))]), s)))

RECURSIVE pacf_inverse_loop(_, _, _, _)
pacf_inverse_loop(st, autocovariances, order, s) ==
    IF s = order \/ ~st.ok THEN st
    ELSE pacf_inverse_loop(pacf_inverse_step(st, autocovariances, s),
                           autocovariances, order, s + 1)

pacf_from_state(st) ==
    IF ~st.ok THEN st
    ELSE [ok |-> TRUE, value |-> st.partial_autocorrelations]

\* autocovariances = [autocovariance.T for autocovariance in ...]
pacf_from_acovf(acovf, order) ==
    IF ~acovf.ok THEN acovf
    ELSE pacf_from_state(
            pacf_inverse_loop(
                [ok |-> TRUE, forwards |-> <<>>, backwards |-> <<>>,
                 partial_autocorrelations |-> <<>>],
                Tup([i \in 1..Len(acovf.value) |-> T(acovf.value[i])]),
                order, 0))

_compute_multivariate_pacf_from_coefficients(constrained, error_variance, order, k_endog) ==
    pacf_from_acovf(
        _compute_multivariate_acovf_from_coefficients(
            constrained, error_variance, order, k_endog, order),
        order)

(***************************************************************************)
(* _compute_coefficients_from_multivariate_pacf_python2 (lists of          *)
(* matrices with the history of every step, 1-based here:                  *)
(* forward_variances[s + 1] is the code's forward_variances[s]).           *)
(***************************************************************************)
\* the update with every previous block corrected by its own side
RECURSIVE pacf2_update_same_side(_, _, _, _, _)
pacf2_update_same_side(st, prev_forwards, prev_backwards, s, k) ==
    IF k = s THEN st
    ELSE pacf2_update_same_side(
        [st EXCEPT
            !.forwards = Insert(@, k,
                MSub(prev_forwards[k + 1],
                     dot(Last(st.forwards), prev_forwards[s - k]))),
            !.backwards = Insert(@, k,
                MSub(prev_backwards[k + 1],
                     dot(Last(st.backwards), prev_backwards[s - k]))),
            !.autocovariances[s + 2] =
                MAdd(@, dot(st.autocovariances[k + 2],
                            T(prev_forwards[s - k])))],
        prev_forwards, prev_backwards, s, k + 1)

\* for k in range(s): forwards.insert(k, ...); backwards.insert(k, ...);
\*                    autocovariances[s+1] += ...
RECURSIVE pacf2_update(_, _, _, _, _)
pacf2_update(st, prev_forwards, prev_backwards, s, k) ==
    IF k = s THEN st
    ELSE pacf2_update(
        [st EXCEPT
            !.forwards = Insert(@, k,
                MSub(prev_forwards[k + 1],
                     dot(Last(st.forwards), prev_backwards[s - k]))),
            !.backwards = Insert(@, k,
                MSub(prev_backwards[k + 1],
                     dot(Last(st.backwards), prev_forwards[s - k]))),
            !.autocovariances[s + 2] =
                MAdd(@, dot(st.autocovariances[k + 2],
                            T(prev_forwards[s - k])))],
        prev_forwards, prev_backwards, s, k + 1)

\* forward_factors.append(linalg.cholesky(forward_variances[s+1], lower=True))
\* backward_factors.append(linalg.cholesky(backward_variances[s+1], lower=True))
pacf2_step_factors(updated, forward_factors, backward_factors) ==
    IF ~forward_factors.ok THEN forward_factors
    ELSE IF ~backward_factors.ok THEN backward_factors
    ELSE [updated EXCEPT
            !.forward_factors = Append(@, forward_factors.L),
            !.backward_factors = Append(@, backward_factors.L)]

pacf2_step_refactor(updated) ==
    pacf2_step_factors(updated,
                       cholesky(Last(updated.forward_variances)),
                       cholesky(Last(updated.backward_variances)))

\* forward_variances.append(forward_variances[s] - tmp . forwards[s].T)
\* backward_variances.append(backward_variances[s]
\*     - backwards[s] . forward_variances[s] . backwards[s].T)
pacf2_step_variances(updated, tmp, s) ==
    pacf2_step_refactor(
        [updated EXCEPT
            !.forward_variances = Append(@,
                MSub(updated.forward_variances[s + 1],
                     dot(tmp, T(updated.forwards[s + 1])))),
            !.backward_variances = Append(@,
                MSub(updated.backward_variances[s + 1],
                     dot(dot(updated.backwards[s + 1],
                             updated.forward_variances[s + 1]),
                         T(updated.backwards[s + 1]))))])

\* tmp = np.dot(forwards[0], backward_variances[s])
\* autocovariances.append(tmp.copy().T), then the Levinson update
pacf2_step_update(st, forward, backward, tmp, s) ==
    pacf2_step_variances(
        pacf2_update([st EXCEPT
                        !.forwards = <<forward>>,
                        !.backwards = <<backward>>,
                        !.autocovariances = Append(@, T(tmp))],
                     st.forwards, st.backwards, s, 0),
        tmp, s)

pacf2_step_new(st, forward, backward, s) ==
    pacf2_step_update(st, forward, backward,
                      dot(forward, st.backward_variances[s + 1]), s)

\* one pass of `for s in range(order)`
pacf2_step(st, partial_autocorrelations, s) ==
    pacf2_step_new(st,
        dot(st.forward_factors[s + 1],
            T(solve_triangular(st.backward_factors[s + 1],
                               T(partial_autocorrelations[s + 1]), TRUE))),
        dot(st.backward_factors[s + 1],
            T(solve_triangular(st.forward_factors[s + 1],
                               partial_autocorrelations[s + 1], TRUE))),
        s)

RECURSIVE pacf2_loop(_, _, _, _)
pacf2_loop(st, partial_autocorrelations, order, s) ==
    IF s = order \/ ~st.ok THEN st
    ELSE pacf2_loop(pacf2_step(st, partial_autocorrelations, s),
                    partial_autocorrelations, order, s + 1)

\* the lists before the loop
pacf2_start(error_variance, error_variance_factor) ==
    IF ~error_variance_factor.ok THEN error_variance_factor
    ELSE [ok |-> TRUE,
          forward_variances |-> <<error_variance>>,
          backward_variances |-> <<error_variance>>,
          autocovariances |-> <<error_variance>>,
          forwards |-> <<>>,
          backwards |-> <<>>,
          forward_factors |-> <<error_variance_factor.L>>,
          backward_factors |-> <<error_variance_factor.L>>]

\* for i in range(order):
\*     forwards[i] = np.dot(np.dot(transform, forwards[i]), inv_transform)
pacf2_transformed(forwards, variance, transform, inv_transform, order) ==
    [ok |-> TRUE,
     value |-> <<Tup([i \in 1..order |->
                    dot(dot(transform, forwards[i]), inv_transform)]),
                 variance>>]

pacf2_transform(forwards, variance, transform, order) ==
    pacf2_transformed(forwards, variance, transform, inv(transform).X, order)

pacf2_correction(forwards, variance, initial_variance_factor, transformed_variance_factor, order) ==
    IF ~initial_variance_factor.ok THEN initial_variance_factor
    ELSE IF ~transformed_variance_factor.ok THEN transformed_variance_factor
    ELSE pacf2_transform(forwards, variance,
            dot(initial_variance_factor.L,
                inv(transformed_variance_factor.L).X),
            order)

\* variance = forward_variances[-1], and the correction of the coefficients
\* when the variance is not transformed
pacf2_result(st, initial_variance, order, transform_variance) ==
    IF ~st.ok THEN st
    ELSE IF transform_variance
        THEN [ok |-> TRUE,
              value |-> <<st.forwards, Last(st.forward_variances)>>]
    ELSE pacf2_correction(st.forwards, Last(st.forward_variances),
                          cholesky(initial_variance),
                          cholesky(Last(st.forward_variances)), order)

\* the variance the recursion starts from
pacf_initial_variance(error_variance, order, k_endog, transform_variance) ==
    IF transform_variance THEN error_variance
    ELSE surrogate_variance(order, k_endog)

\* the result is [ok |-> TRUE, value |-> <<list of forwards, variance>>]
_compute_coefficients_from_multivariate_pacf_python2(partial_autocorrelations, error_variance, order, k_endog, transform_variance) ==
    pacf2_result(
        pacf2_loop(
            pacf2_start(
                pacf_initial_variance(error_variance, order, k_endog,
                                      transform_variance),
                cholesky(pacf_initial_variance(error_variance, order, k_endog,
                                               transform_variance))),
            partial_autocorrelations, order, 0),
        error_variance, order, transform_variance)

(***************************************************************************)
(* constrain_stationary_univariate, unconstrain_stationary_univariate.     *)
(* Vectors are tuples of rationals; y is the n x n array of the code,      *)
(* y[k + 1][i + 1] here being the code's y[k, i].                          *)
(***************************************************************************)
SetRow(y, k, row) == Tup([i \in 1..Len(y) |-> IF i = k THEN row ELSE y[i]])

Diagonal(y) == Tup([i \in 1..Len(y) |-> y[i][i]])

\* the forward recursion with the coefficient of the previous row read at
\* the same index instead of the reversed one
RECURSIVE constrain_rows_same_index(_, _, _, _)
constrain_rows_same_index(y, r, n, k) ==
    IF k > n THEN y
    ELSE constrain_rows_same_index(
            SetRow(y, k, Tup([i \in 1..n |->
                IF i < k THEN RAdd(y[k - 1][i], RMul(r[k], y[k - 1][i]))
                ELSE IF i = k THEN r[k]
                ELSE y[k][i]])),
            r, n, k + 1)

\* for k in range(n):
\*     for i in range(k): y[k, i] = y[k-1, i] + r[k] * y[k-1, k-i-1]
\*     y[k, k] = r[k]
RECURSIVE constrain_rows(_, _, _, _)
constrain_rows(y, r, n, k) ==
    IF k > n THEN y
    ELSE constrain_rows(
            SetRow(y, k, Tup([i \in 1..n |->
                IF i < k THEN RAdd(y[k - 1][i], RMul(r[k], y[k - 1][k - i]))
                ELSE IF i = k THEN r[k]
                ELSE y[k][i]])),
            r, n, k + 1)

\* r = unconstrained / ((1 + unconstrained**2)**0.5)
constrain_pacf(unconstrained) ==
    Tup([i \in 1..Len(unconstrained) |->
        RDiv(unconstrained[i],
             RSqrt(RAdd(One, RMul(unconstrained[i], unconstrained[i]))))])

VNeg(x) == Tup([i \in 1..Len(x) |-> RNeg(x[i])])

\* constrain_stationary_univariate returning the last row of y, not its
\* negation
constrain_stationary_univariate_not_negated(unconstrained) ==
    LET n == Len(unconstrained)
    IN  constrain_rows(zeros(n, n), constrain_pacf(unconstrained), n, 1)[n]

\* constrained = -y[n - 1, :]
constrain_stationary_univariate(unconstrained) ==
    LET n == Len(unconstrained)
    IN  VNeg(constrain_rows(zeros(n, n), constrain_pacf(unconstrained), n, 1)[n])

\* for k in range(n-1, 0, -1):
\*     for i in range(k):
\*         y[k-1, i] = (y[k, i] - y[k, k]*y[k, k-i-1]) / (1 - y[k, k]**2)
RECURSIVE unconstrain_rows(_, _, _)
unconstrain_rows(y, n, k) ==
    IF k < 2 THEN y
    ELSE unconstrain_rows(
            SetRow(y, k - 1, Tup([i \in 1..n |->
                IF i < k
                THEN RDiv(RSub(y[k][i], RMul(y[k][k], y[k][k - i])),
                          RSub(One, RMul(y[k][k], y[k][k])))
                ELSE y[k - 1][i]])),
            n, k - 1)

\* x = r / ((1 - r**2)**0.5)
unconstrain_pacf(r) ==
    Tup([i \in 1..Len(r) |->
        RDiv(r[i], RSqrt(RSub(One, RMul(r[i], r[i]))))])

\* y[n - 1, :] = -constrained; r = y.diagonal()
unconstrain_stationary_univariate(constrained) ==
    LET n == Len(constrained)
    IN  unconstrain_pacf(
            Diagonal(unconstrain_rows(SetRow(zeros(n, n), n, VNeg(constrained)),
                                      n, n)))

(***************************************************************************)
(* is_invertible.  np.all(np.abs(np.linalg.eigvals(M)) < threshold) is     *)
(* decided exactly: the characteristic polynomial of M / threshold by the  *)
(* Faddeev-LeVerrier recursion, then the Schur-Cohn reduction, which       *)
(* holds iff every root of a monic polynomial has modulus < 1.             *)
(***************************************************************************)
Trace(A) == RSum(Diagonal(A), Len(A))

\* <<c_0, ..., c_n>> with det(x I - A) = c_0 + c_1 x + ... + c_n x^n
RECURSIVE charpoly_loop(_, _, _, _)
charpoly_next(A, next, c, k) ==
    charpoly_loop(A, next,
        [c EXCEPT ![Rows(A) - k + 1] =
            RDiv(RNeg(Trace(dot(A, next))), <<k, 1>>)],
        k + 1)

charpoly_loop(A, M, c, k) ==
    IF k > Rows(A) THEN c
    ELSE charpoly_next(A,
            MAdd(dot(A, M), MScale(c[Rows(A) - k + 2], eye(Rows(A)))), c, k)

charpoly(A) ==
    charpoly_loop(A, zeros(Rows(A), Rows(A)),
                  Tup([i \in 1..(Rows(A) + 1) |->
                        IF i = Rows(A) + 1 THEN One ELSE Zero]), 1)

\* "inside", "not inside", or "unknown" when a coefficient is not a rational
RECURSIVE schur_cohn(_)
schur_cohn_reduce(c, n, a, den) ==
    IF Special(den) THEN "unknown"
    ELSE IF ~RLess(Zero, den) THEN "not inside"
    ELSE schur_cohn(Tup([j \in 1..n |->
            RDiv(RSub(c[j + 1], RMul(a, c[n - j + 1])), den)]))

schur_cohn(c) ==
    IF Len(c) = 1 THEN "inside"
    ELSE schur_cohn_reduce(c, Len(c) - 1, c[1],
                           RSub(One, RMul(c[1], c[1])))

\* every eigenvalue of `matrix` has modulus < threshold
eigvals_all_less(matrix, threshold) ==
    schur_cohn(Tup(charpoly(MScale(RInv(threshold), matrix))))

is_invertible_value(inside) ==
    [raised |-> FALSE, exact |-> inside # "unknown", value |-> inside = "inside"]

\* eigvals = np.linalg.eigvals(companion_matrix(polynomial))
\* return np.all(np.abs(eigvals) < threshold)
is_invertible_made(made, threshold) ==
    IF made.raised THEN [raised |-> TRUE, type |-> made.type]
    ELSE is_invertible_value(eigvals_all_less(made.value, threshold))

is_invertible(polynomial, threshold) ==
    is_invertible_made(companion_matrix(polynomial), threshold)

(***************************************************************************)
(* The multivariate entry points.  The coefficients are passed as          *)
(* [form |-> "list", v |-> <<A_1, ..., A_order>>] or as                    *)
(* [form |-> "array", v |-> the k_endog x (k_endog * order) matrix];       *)
(* a call returns [ok |-> TRUE, value |-> <<coefficients, variance>>] or   *)
(* the exception raised, [ok |-> FALSE, type |-> ...].                     *)
(***************************************************************************)
AsList(v) == [form |-> "list", v |-> v]
AsArray(v) == [form |-> "array", v |-> v]

\* [a[:k_endog, i*k_endog:(i+1)*k_endog] for i in range(order)]
Blocks(a, order, k_endog) ==
    Tup([i \in 1..order |-> Slice(a, 0, k_endog, (i - 1) * k_endog, i * k_endog)])

prefix_sv_stacked(constrained) ==
    IF ~constrained.ok THEN constrained
    ELSE [ok |-> TRUE, value |-> concatenate(constrained.value)]

\* The compiled kernel prefix_sv_map[prefix]: the SV constraint on the
\* blocks of the stacked matrix, returned stacked.
prefix_sv_map(unconstrained, order, k_endog) ==
    prefix_sv_stacked(
        _constrain_sv_less_than_one_python(
            Blocks(unconstrained, order, k_endog), order, k_endog))

prefix_pacf_returned(made, variance, transform_variance) ==
    IF ~made.ok THEN made
    ELSE [ok |-> TRUE,
          value |-> <<made.value[1],
                      IF transform_variance THEN made.value[2] ELSE variance>>]

\* The compiled kernel prefix_pacf_map[prefix]: the PACF-to-coefficient
\* transform on the stacked matrix; the variance returned is the forward
\* variance of the recursion when transform_variance, and the caller's
\* variance otherwise.
prefix_pacf_map(sv_constrained, variance, order, k_endog, transform_variance) ==
    prefix_pacf_returned(
        _compute_coefficients_from_multivariate_pacf_python(
            Blocks(sv_constrained, order, k_endog), variance,
            order, k_endog, transform_variance),
        variance, transform_variance)

\* if use_list: constrained = [constrained[:k_endog, i*k_endog:(i+1)*k_endog]
\*                             for i in range(order)]
constrain_returned(use_list, made, order, k_endog) ==
    IF ~made.ok THEN made
    ELSE [ok |-> TRUE,
          value |-> <<IF use_list
                      THEN AsList(Blocks(made.value[1], order, k_endog))
                      ELSE AsArray(made.value[1]),
                      made.value[2]>>]

\* constrained, variance = prefix_pacf_map[prefix](
\*     sv_constrained, variance, order, k_endog, transform_variance)
constrain_sv_constrained(use_list, sv_constrained, variance, order, k_endog, transform_variance) ==
    IF ~sv_constrained.ok THEN sv_constrained
    ELSE constrain_returned(use_list,
            prefix_pacf_map(sv_constrained.value, variance, order, k_endog,
                            transform_variance),
            order, k_endog)

\* k_endog, order = unconstrained.shape; order //= k_endog
\* sv_constrained = prefix_sv_map[prefix](unconstrained, order, k_endog)
constrain_stacked(use_list, unconstrained, variance, transform_variance) ==
    constrain_sv_constrained(use_list,
        prefix_sv_map(unconstrained, Cols(unconstrained) \div Rows(unconstrained),
                      Rows(unconstrained)),
        variance, Cols(unconstrained) \div Rows(unconstrained),
        Rows(unconstrained), transform_variance)

\* constrain_stationary_multivariate returning the stacked matrix to a
\* caller that passed a list
constrain_stationary_multivariate_stacked_result(unconstrained, variance, transform_variance) ==
    constrain_stacked(FALSE,
        IF unconstrained.form = "list" THEN concatenate(unconstrained.v)
        ELSE unconstrained.v,
        variance, transform_variance)

\* use_list = type(unconstrained) is list
\* if use_list: unconstrained = np.concatenate(unconstrained, axis=1)
constrain_stationary_multivariate(unconstrained, variance, transform_variance) ==
    constrain_stacked(unconstrained.form = "list",
        IF unconstrained.form = "list" THEN concatenate(unconstrained.v)
        ELSE unconstrained.v,
        variance, transform_variance)

\* if not use_list: unconstrained = np.concatenate(unconstrained, axis=1)
\* return unconstrained, error_variance
unconstrain_returned(use_list, unconstrained, error_variance) ==
    IF ~unconstrained.ok THEN unconstrained
    ELSE [ok |-> TRUE,
          value |-> <<IF use_list THEN AsList(unconstrained.value)
                      ELSE AsArray(concatenate(unconstrained.value)),
                      error_variance>>]

\* the partial autocorrelations returned as they are, without the step that
\* takes them out of the matrices with singular values less than one
unconstrain_partial_autocorrelations_returned(use_list, partial_autocorrelations, error_variance, order, k_endog) ==
    unconstrain_returned(use_list, partial_autocorrelations, error_variance)

\* unconstrained = _unconstrain_sv_less_than_one(partial_autocorrelations)
unconstrain_partial_autocorrelations(use_list, partial_autocorrelations, error_variance, order, k_endog) ==
    IF ~partial_autocorrelations.ok THEN partial_autocorrelations
    ELSE unconstrain_returned(use_list,
            _unconstrain_sv_less_than_one(partial_autocorrelations.value,
                                          order, k_endog),
            error_variance)

\* partial_autocorrelations = _compute_multivariate_pacf_from_coefficients(
\*     constrained, error_variance, order, k_endog)
unconstrain_list(use_list, constrained, error_variance, order, k_endog) ==
    unconstrain_partial_autocorrelations(use_list,
        _compute_multivariate_pacf_from_coefficients(
            constrained, error_variance, order, k_endog),
        error_variance, order, k_endog)

\* the inverse run, when transform_variance, on the surrogate variance the
\* forward transform uses, which is then returned
unconstrain_stationary_multivariate_transforming(constrained, error_variance, transform_variance) ==
    LET use_list == constrained.form = "list"
        k_endog == IF use_list THEN Rows(constrained.v[1])
                   ELSE Rows(constrained.v)
        order == IF use_list THEN Len(constrained.v)
                 ELSE Cols(constrained.v) \div k_endog
    IN  unconstrain_list(use_list,
            IF use_list THEN constrained.v
            ELSE Blocks(constrained.v, order, k_endog),
            IF transform_variance THEN surrogate_variance(order, k_endog)
            ELSE error_variance,
            order, k_endog)

\* transform_variance is accepted and not used
unconstrain_stationary_multivariate(constrained, error_variance, transform_variance) ==
    LET use_list == constrained.form = "list"
        k_endog == IF use_list THEN Rows(constrained.v[1])
                   ELSE Rows(constrained.v)
        order == IF use_list THEN Len(constrained.v)
                 ELSE Cols(constrained.v) \div k_endog
    IN  unconstrain_list(use_list,
            IF use_list THEN constrained.v
            ELSE Blocks(constrained.v, order, k_endog),
            error_variance, order, k_endog)

(***************************************************************************)
(* Arguments of companion_matrix: bare integers, scalar polynomials in     *)
(* the three sequence forms, and 2 x 2 matrix polynomials as lists and     *)
(* tuples, with C_0 the marker 1, an ndarray or a nested list.             *)
(***************************************************************************)
MaxOrder == 2
MaxSize == 3

ScalarValues == {Rat(1, 1), Rat(-1, 2), Rat(2, 1)}

M_a == <<<<Rat(1, 2), Rat(1, 3)>>, <<Rat(0, 1), Rat(-1, 4)>>>>
M_b == <<<<Rat(0, 1), Rat(1, 1)>>, <<Rat(-1, 2), Rat(1, 2)>>>>
M_c == <<<<Rat(2, 1), Rat(1, 1)>>, <<Rat(1, 1), Rat(1, 1)>>>>
M_singular == <<<<Rat(1, 1), Rat(2, 1)>>, <<Rat(2, 1), Rat(4, 1)>>>>

MatrixValues == {M_a, M_b}
LeadingMatrices == {eye(2), M_c, M_singular}

IntPolynomials == [form : {"int"}, n : (-1)..MaxSize]

ScalarPolynomials ==
    UNION {[form : {"list", "tuple", "array"},
            coef : [1..(n + 1) -> {Scalar(q) : q \in ScalarValues \cup {Zero}}]]
           : n \in 0..MaxOrder}

MatrixPolynomials ==
    UNION {[form : {"list", "tuple"},
            coef : [1..(n + 1) -> {NdArray(A) : A \in MatrixValues}]]
           : n \in 0..MaxOrder}

WithLeading(p, c0) == [p EXCEPT !.coef[1] = c0]

Polynomials ==
    IntPolynomials
    \cup {p \in ScalarPolynomials : ScalarOf(p.coef[1]) # Zero}
    \cup {WithLeading(p, c0) :
            p \in MatrixPolynomials,
            c0 \in {Scalar(One)} \cup {NdArray(A) : A \in LeadingMatrices}
                   \cup {NestedList(A) : A \in LeadingMatrices}}

\* the order of a polynomial and the size of its coefficients
Order(p) == IF p.form = "int" THEN p.n ELSE Len(p.coef) - 1
BlockSize(p) ==
    IF p.form = "int" \/ Order(p) < 1 \/ p.coef[2].k = "s" THEN 1
    ELSE Len(p.coef[2].v)

CompanionInit ==
    /\ pc = "start"
    /\ arg \in [polynomial : Polynomials]
    /\ res = <<>>

CompanionMatrix ==
    /\ pc = "start"
    /\ pc' = "companion_matrix"
    /\ res' = <<companion_matrix(arg.polynomial)>>
    /\ UNCHANGED arg

\* a caller that passed the marker 1 as C_0 calls again, on a new sequence
\* of the same form with C_0 the explicit identity, as an ndarray or as a
\* nested list
CompanionMatrixExplicitIdentity ==
    /\ pc = "companion_matrix"
    /\ arg.polynomial.form \in {"list", "tuple"}
    /\ Order(arg.polynomial) >= 1
    /\ arg.polynomial.coef[1] = Scalar(One)
    /\ arg.polynomial.coef[2].k # "s"
    /\ \E C_0 \in {NdArray(eye(BlockSize(arg.polynomial))),
                   NestedList(eye(BlockSize(arg.polynomial)))} :
        res' = Append(res, companion_matrix(WithLeading(arg.polynomial, C_0)))
    /\ pc' = "explicit_identity"
    /\ UNCHANGED arg

CompanionNext == CompanionMatrix \/ CompanionMatrixExplicitIdentity

CompanionSpec == CompanionInit /\ [][CompanionNext]_vars

(***************************************************************************)
(* C9 as stated: companion_matrix fails with ValueError for every input    *)
(* of order < 1, a single-term sequence as well as the integer 0 or a      *)
(* smaller one.                                                            *)
(***************************************************************************)
C9_OrderZeroRejected ==
    (pc = "companion_matrix" /\ Order(arg.polynomial) < 1) =>
        /\ res[1].raised
        /\ res[1].type = "ValueError"

(***************************************************************************)
(* C10 as stated: the result is (n*m) x (n*m), and outside the first block *)
(* column it holds an identity block on the sub-diagonal and zeros; for    *)
(* the integer 3 it is 3 x 3, zero except the sub-diagonal identity.       *)
(***************************************************************************)
CompanionReturned == pc = "companion_matrix" /\ ~res[1].raised

SquareOfSize(A, k) == Rows(A) = k /\ \A i \in 1..k : Len(A[i]) = k

C10_SubDiagonalIdentity ==
    CompanionReturned =>
        LET n == Order(arg.polynomial)
            m == BlockSize(arg.polynomial)
            A == res[1].value
        IN  /\ SquareOfSize(A, n * m)
            /\ \A i, j \in 1..(n * m) :
                (j > m \/ arg.polynomial.form = "int") =>
                    A[i][j] = IF i = j + m THEN One ELSE Zero

(***************************************************************************)
(* C10 amended: the result is (n*m) x (n*m), and outside the first block   *)
(* column it holds an identity block on the super-diagonal (entry          *)
(* (i, i + m) for i <= (n-1)*m) and zeros; for the integer 3 it is 3 x 3,  *)
(* zero except the ones at (1,2) and (2,3).                                *)
(***************************************************************************)
C10_SuperDiagonalIdentity ==
    CompanionReturned =>
        LET n == Order(arg.polynomial)
            m == BlockSize(arg.polynomial)
            A == res[1].value
        IN  /\ SquareOfSize(A, n * m)
            /\ \A i, j \in 1..(n * m) :
                (j > m \/ arg.polynomial.form = "int") =>
                    A[i][j] = IF j = i + m THEN One ELSE Zero

C10_Witness ==
    /\ CompanionReturned
    /\ arg.polynomial = [form |-> "int", n |-> 3]
    /\ res[1].value = <<<<Zero, One, Zero>>, <<Zero, Zero, One>>,
                        <<Zero, Zero, Zero>>>>

(***************************************************************************)
(* C11: for a scalar polynomial (c_0, ..., c_n) with c_0 # 0, passed as a  *)
(* list, a tuple or an array, companion_matrix returns, and row i of the   *)
(* first column of the result is -c_i / c_0 (c_0 times the entry is -c_i)  *)
(* for every i in 1..n; companion_matrix([1, -0.5]) is [[0.5]].            *)
(***************************************************************************)
ScalarPolynomial(p) ==
    /\ p.form \in {"list", "tuple", "array"}
    /\ Order(p) >= 1
    /\ \A i \in 1..Len(p.coef) : p.coef[i].k = "s"

C11_ScalarFirstColumn ==
    (pc = "companion_matrix" /\ ScalarPolynomial(arg.polynomial)) =>
        /\ ~res[1].raised
        /\ \A i \in 1..Order(arg.polynomial) :
            /\ ~Special(res[1].value[i][1])
            /\ RMul(ScalarOf(arg.polynomial.coef[1]), res[1].value[i][1])
                = RNeg(ScalarOf(arg.polynomial.coef[i + 1]))
        /\ arg.polynomial.coef = <<Scalar(One), Scalar(Rat(-1, 2))>> =>
            res[1].value = <<<<Rat(1, 2)>>>>

C11_Witness ==
    /\ pc = "companion_matrix"
    /\ arg.polynomial = [form |-> "tuple",
                         coef |-> <<Scalar(Rat(2, 1)), Scalar(Rat(-1, 2)),
                                    Scalar(One)>>]
    /\ ~res[1].raised
    /\ res[1].value = <<<<Rat(1, 4), One>>, <<Rat(-1, 2), Zero>>>>

(***************************************************************************)
(* C12 as stated: for a matrix polynomial (C_0, ..., C_n) of m x m         *)
(* coefficients with invertible C_0 that is not the identity marker,       *)
(* companion_matrix returns and block i of the first block column is       *)
(* -C_0^{-1} C_i' (C_0 times the block is -C_i'), for every i in 1..n.     *)
(***************************************************************************)
MatrixPolynomial(p) ==
    /\ p.form \in {"list", "tuple"}
    /\ Order(p) >= 1
    /\ p.coef[2].k # "s"

InvertibleLeading(p) == p.coef[1].k # "s" /\ inv(p.coef[1].v).ok

\* block i (1-based) of the first block column of A, the blocks m x m
FirstColumnBlock(A, i, m) == Slice(A, (i - 1) * m, i * m, 0, m)

C12_FirstBlockColumn ==
    (/\ pc = "companion_matrix"
     /\ MatrixPolynomial(arg.polynomial)
     /\ InvertibleLeading(arg.polynomial)) =>
        /\ ~res[1].raised
        /\ \A i \in 1..Order(arg.polynomial) :
            dot(arg.polynomial.coef[1].v,
                FirstColumnBlock(res[1].value, i, BlockSize(arg.polynomial)))
                = MNeg(T(arg.polynomial.coef[i + 1].v))

(***************************************************************************)
(* C13 as stated: for every matrix polynomial, companion_matrix with C_0   *)
(* the literal 1 and companion_matrix with C_0 the explicit m x m identity *)
(* both complete without error, for lists and tuples alike, and return the *)
(* same matrix.                                                            *)
(***************************************************************************)
C13_MarkerIsShortcut ==
    pc = "explicit_identity" =>
        /\ ~res[1].raised
        /\ ~res[2].raised
        /\ res[2].value = res[1].value

(***************************************************************************)
(* C14 as stated: after a call that returns, the polynomial of the caller  *)
(* is as it was before the call, every element of a list included, for    *)
(* every input form and for a matrix polynomial whose first element is the *)
(* marker 1.                                                               *)
(***************************************************************************)
C14_PolynomialUnchanged ==
    (pc = "companion_matrix" /\ ~res[1].raised) =>
        res[1].polynomial = arg.polynomial

(***************************************************************************)
(* Arguments of the shape validators.                                      *)
(***************************************************************************)
MaxDim == 2
MaxNdim == 4

Names == {"design", "obs_intercept"}
Dims == (1..MaxDim) \cup {5, 10}
Shapes == UNION {[1..n -> Dims] : n \in 0..MaxNdim}
NobsValues == {None} \cup Dims

ShapeInit ==
    /\ pc = "start"
    /\ arg \in [name : Names, shape : Shapes, nrows : Dims, ncols : Dims,
                nobs : NobsValues]
    /\ res = <<>>

ValidateMatrixShape ==
    /\ pc = "start"
    /\ pc' = "validate_matrix_shape"
    /\ res' = <<validate_matrix_shape(arg.name, arg.shape, arg.nrows,
                                      arg.ncols, arg.nobs)>>
    /\ UNCHANGED arg

ValidateVectorShape ==
    /\ pc = "start"
    /\ pc' = "validate_vector_shape"
    /\ res' = <<validate_vector_shape(arg.name, arg.shape, arg.nrows,
                                      arg.nobs)>>
    /\ UNCHANGED arg

ShapeNext == ValidateMatrixShape \/ ValidateVectorShape

ShapeSpec == ShapeInit /\ [][ShapeNext]_vars

(***************************************************************************)
(* C6: validate_matrix_shape returns without error iff the shape has 2 or  *)
(* 3 dimensions, shape[0] = nrows, shape[1] = ncols, and the shape is 2-D  *)
(* or its trailing dimension is 1 or nobs is known and equals the trailing *)
(* dimension; otherwise it raises the shape error.  (2,2) with nobs        *)
(* unknown succeeds, (2,2,5) with nobs = 10 fails.                         *)
(***************************************************************************)
MatrixShapeAccepted(a) ==
    /\ Len(a.shape) \in {2, 3}
    /\ a.shape[1] = a.nrows
    /\ a.shape[2] = a.ncols
    /\ \/ Len(a.shape) = 2
       \/ a.shape[Len(a.shape)] = 1
       \/ a.nobs # None /\ a.shape[Len(a.shape)] = a.nobs

C6_MatrixShapeIff ==
    pc = "validate_matrix_shape" =>
        /\ res[1].raised = ~MatrixShapeAccepted(arg)
        /\ res[1].raised => res[1].type = "ValueError"
        /\ (arg.shape = <<2, 2>> /\ arg.nrows = 2 /\ arg.ncols = 2
                /\ arg.nobs = None) => ~res[1].raised
        /\ (arg.shape = <<2, 2, 5>> /\ arg.nrows = 2 /\ arg.ncols = 2
                /\ arg.nobs = 10) => res[1].raised

C6_Witness ==
    /\ pc = "validate_matrix_shape"
    /\ arg.shape = <<2, 2, 5>> /\ arg.nrows = 2 /\ arg.ncols = 2
    /\ arg.nobs = 10
    /\ res[1].raised

(***************************************************************************)
(* C7: validate_vector_shape returns without error iff the shape has 1 or  *)
(* 2 dimensions, shape[0] = nrows, and the shape is 1-D or its trailing    *)
(* dimension is 1 or nobs is known and equals the trailing dimension;      *)
(* (nrows, 1) with nobs unknown is accepted, (nrows, T), T # 1, with nobs  *)
(* unknown is rejected.                                                    *)
(***************************************************************************)
VectorShapeAccepted(a) ==
    /\ Len(a.shape) \in {1, 2}
    /\ a.shape[1] = a.nrows
    /\ \/ Len(a.shape) = 1
       \/ a.shape[Len(a.shape)] = 1
       \/ a.nobs # None /\ a.shape[Len(a.shape)] = a.nobs

C7_VectorShapeIff ==
    pc = "validate_vector_shape" =>
        /\ res[1].raised = ~VectorShapeAccepted(arg)
        /\ (arg.nobs = None /\ arg.shape = <<arg.nrows, 1>>)
                => ~res[1].raised
        /\ (arg.nobs = None /\ Len(arg.shape) = 2 /\ arg.shape[2] # 1)
                => res[1].raised

C7_Witness ==
    /\ pc = "validate_vector_shape"
    /\ arg.nobs = None
    /\ arg.shape = <<arg.nrows, 1>>
    /\ ~res[1].raised

(***************************************************************************)
(* C8 as stated: every error raised by the two validators carries the      *)
(* operand's name and the expected and the actual shape or dimension.      *)
(***************************************************************************)
ShapeCallDone == pc \in {"validate_matrix_shape", "validate_vector_shape"}

C8_EveryErrorCarriesExpectedActual ==
    (ShapeCallDone /\ res[1].raised) =>
        /\ res[1].name = arg.name
        /\ res[1].expected # <<>>
        /\ res[1].actual # <<>>

(***************************************************************************)
(* C8 amended: every error carries the operand's name; the errors for a    *)
(* wrong number of dimensions, wrong rows, wrong columns and a trailing    *)
(* dimension that mismatches a known nobs also carry the expected and the  *)
(* actual value; the error for a time-varying shape with nobs unknown      *)
(* carries the name only.                                                  *)
(***************************************************************************)
C8_ErrorContents ==
    (ShapeCallDone /\ res[1].raised) =>
        LET e == res[1]
            matrix == pc = "validate_matrix_shape"
        IN  /\ e.name = arg.name
            /\ e.kind = "ndim" =>
                    /\ e.expected = IF matrix THEN <<2, 3>> ELSE <<1, 2>>
                    /\ e.actual = <<Len(arg.shape)>>
            /\ e.kind = "rows" =>
                    /\ e.expected = <<arg.nrows>>
                    /\ e.actual = <<arg.shape[1]>>
                    /\ arg.shape[1] # arg.nrows
            /\ e.kind = "columns" =>
                    /\ e.expected = <<arg.ncols>>
                    /\ e.actual = <<arg.shape[2]>>
                    /\ arg.shape[2] # arg.ncols
            /\ e.kind = "nobs_mismatch" =>
                    /\ arg.nobs # None
                    /\ e.expected = <<arg.nobs>>
                    /\ e.actual = arg.shape
            /\ e.kind = "nobs_unknown" =>
                    /\ arg.nobs = None
                    /\ e.expected = <<>>
                    /\ e.actual = <<>>

C8_Witness ==
    /\ ShapeCallDone
    /\ res[1].raised
    /\ res[1].kind = "nobs_unknown"
    /\ res[1].name = arg.name

(***************************************************************************)
(* Arguments of the stationarity transforms.  A session is univariate      *)
(* (one vector of 1..MaxLen values) or multivariate (1..MaxLag matrices    *)
(* of size 2 x 2, an error variance and transform_variance).  The values   *)
(* are such that the roots the transforms take of them are rational.       *)
(***************************************************************************)
MaxLen == 3
MaxLag == 2

UniValues == {Zero, Rat(3, 4), Rat(-4, 3), Rat(5, 12)}
Thresholds == {One, Rat(3, 4)}

A_zero == zeros(2, 2)
A_lower == <<<<Zero, Zero>>, <<Rat(3, 4), Zero>>>>
A_rotation == <<<<Rat(1, 2), One>>, <<Rat(-1, 1), Rat(1, 2)>>>>

MultiValues == {A_zero, A_lower, A_rotation}

V_identity == eye(2)
V_correlated == <<<<One, One>>, <<One, Rat(2, 1)>>>>

Variances == {V_identity, V_correlated}

TuplesOf(S, maxlen) == UNION {{Tup(f) : f \in [1..n -> S]} : n \in 1..maxlen}

UniArgs ==
    [kind : {"univariate"}, unconstrained : TuplesOf(UniValues, MaxLen),
     threshold : Thresholds]

MultiArgs ==
    [kind : {"multivariate"}, unconstrained : TuplesOf(MultiValues, MaxLag),
     variance : Variances, transform_variance : BOOLEAN]

\* np.r_[1, -coefficients]
ScalarLagPolynomial(coefficients) ==
    [form |-> "array",
     coef |-> <<Scalar(One)>> \o
              Tup([i \in 1..Len(coefficients) |-> Scalar(RNeg(coefficients[i]))])]

\* [1] + [-A for A in coefficients]
MatrixLagPolynomial(coefficients) ==
    [form |-> "list",
     coef |-> <<Scalar(One)>> \o
              Tup([i \in 1..Len(coefficients) |-> NdArray(MNeg(coefficients[i]))])]

StationaryInit ==
    /\ pc = "start"
    /\ arg \in UniArgs \cup MultiArgs
    /\ res = <<>>

\* is_invertible on the polynomial of the caller's own coefficients
IsInvertible ==
    /\ pc = "start"
    /\ pc' = "is_invertible"
    /\ res' = <<is_invertible(
                    IF arg.kind = "univariate"
                    THEN ScalarLagPolynomial(arg.unconstrained)
                    ELSE MatrixLagPolynomial(arg.unconstrained),
                    IF arg.kind = "univariate" THEN arg.threshold ELSE One)>>
    /\ UNCHANGED arg

ConstrainUnivariate ==
    /\ pc = "start"
    /\ arg.kind = "univariate"
    /\ pc' = "constrained"
    /\ res' = <<constrain_stationary_univariate(arg.unconstrained)>>
    /\ UNCHANGED arg

IsInvertibleUnivariate ==
    /\ pc = "constrained"
    /\ arg.kind = "univariate"
    /\ pc' = "tested"
    /\ res' = Append(res, is_invertible(ScalarLagPolynomial(res[1]), One))
    /\ UNCHANGED arg

UnconstrainUnivariate ==
    /\ pc = "tested"
    /\ arg.kind = "univariate"
    /\ pc' = "unconstrained"
    /\ res' = Append(res, unconstrain_stationary_univariate(res[1]))
    /\ UNCHANGED arg

ReconstrainUnivariate ==
    /\ pc = "unconstrained"
    /\ arg.kind = "univariate"
    /\ pc' = "reconstrained"
    /\ res' = Append(res, constrain_stationary_univariate(res[3]))
    /\ UNCHANGED arg

ConstrainSV ==
    /\ pc = "start"
    /\ arg.kind = "multivariate"
    /\ pc' = "sv_constrained"
    /\ res' = <<_constrain_sv_less_than_one_python(
                    arg.unconstrained, Len(arg.unconstrained), 2)>>
    /\ UNCHANGED arg

ConstrainList ==
    /\ pc = "start"
    /\ arg.kind = "multivariate"
    /\ pc' = "constrained_list"
    /\ res' = <<constrain_stationary_multivariate(
                    AsList(arg.unconstrained), arg.variance,
                    arg.transform_variance)>>
    /\ UNCHANGED arg

ConstrainArray ==
    /\ pc = "constrained_list"
    /\ pc' = "constrained"
    /\ res' = Append(res, constrain_stationary_multivariate(
                    AsArray(concatenate(arg.unconstrained)), arg.variance,
                    arg.transform_variance))
    /\ UNCHANGED arg

IsInvertibleMultivariate ==
    /\ pc = "constrained"
    /\ arg.kind = "multivariate"
    /\ res[1].ok
    /\ pc' = "tested"
    /\ res' = Append(res, is_invertible(
                    MatrixLagPolynomial(res[1].value[1].v), One))
    /\ UNCHANGED arg

UnconstrainList ==
    /\ pc = "tested"
    /\ arg.kind = "multivariate"
    /\ pc' = "unconstrained_list"
    /\ res' = Append(res, unconstrain_stationary_multivariate(
                    res[1].value[1], res[1].value[2], FALSE))
    /\ UNCHANGED arg

UnconstrainArray ==
    /\ pc = "unconstrained_list"
    /\ res[2].ok
    /\ pc' = "unconstrained"
    /\ res' = Append(res, unconstrain_stationary_multivariate(
                    res[2].value[1], res[2].value[2], FALSE))
    /\ UNCHANGED arg

ReconstrainMultivariate ==
    /\ pc = "unconstrained"
    /\ arg.kind = "multivariate"
    /\ res[4].ok
    /\ pc' = "reconstrained"
    /\ res' = Append(res, constrain_stationary_multivariate(
                    res[4].value[1], res[4].value[2], arg.transform_variance))
    /\ UNCHANGED arg

StationaryNext ==
    \/ IsInvertible
    \/ ConstrainUnivariate
    \/ IsInvertibleUnivariate
    \/ UnconstrainUnivariate
    \/ ReconstrainUnivariate
    \/ ConstrainSV
    \/ ConstrainList
    \/ ConstrainArray
    \/ IsInvertibleMultivariate
    \/ UnconstrainList
    \/ UnconstrainArray
    \/ ReconstrainMultivariate

StationarySpec == StationaryInit /\ [][StationaryNext]_vars

(***************************************************************************)
(* Sessions of a caller that passes constrained values of its own to the   *)
(* inverse transforms: coefficient vectors that reach a diagonal value of  *)
(* 1 or -1, matrices with a singular value >= 1, and an error variance     *)
(* that is not positive definite, next to valid ones.  A call of a Python  *)
(* function that holds no raise statement and divides floating point       *)
(* arrays returns: numpy's division by zero yields inf or nan.             *)
(***************************************************************************)
UnitValues == {Zero, Rat(3, 5), Rat(2, 5), One, Rat(-1, 1)}

P_small == <<<<Rat(3, 5), Zero>>, <<Zero, Zero>>>>
P_stretch == <<<<Zero, Zero>>, <<Zero, Rat(2, 1)>>>>
PartialValues == {P_small, eye(2), A_rotation, P_stretch}

V_indefinite == <<<<One, Zero>>, <<Zero, Rat(-3, 1)>>>>

\* coefficients of stationary processes
P_second == <<<<Zero, Zero>>, <<Zero, Rat(-4, 5)>>>>
StationaryValues == {A_zero, P_small, P_second}
V_scaled == <<<<Rat(4, 1), Zero>>, <<Zero, Rat(9, 1)>>>>

ConstrainedArgs ==
    [kind : {"univariate"}, constrained : TuplesOf(UnitValues, MaxLen)]
    \cup [kind : {"multivariate"},
          constrained : TuplesOf(PartialValues, MaxLag),
          error_variance : {V_identity, V_indefinite}]
    \cup [kind : {"multivariate"},
          constrained : TuplesOf(StationaryValues, MaxLag),
          error_variance : {V_identity, V_scaled}]

UnconstrainInit ==
    /\ pc = "start"
    /\ arg \in ConstrainedArgs
    /\ res = <<>>

UnconstrainUnivariateCall ==
    /\ pc = "start"
    /\ arg.kind = "univariate"
    /\ pc' = "unconstrain_stationary_univariate"
    /\ res' = <<[raised |-> FALSE,
                 value |-> unconstrain_stationary_univariate(arg.constrained)]>>
    /\ UNCHANGED arg

UnconstrainSVCall ==
    /\ pc = "start"
    /\ arg.kind = "multivariate"
    /\ pc' = "_unconstrain_sv_less_than_one"
    /\ res' = <<_unconstrain_sv_less_than_one(arg.constrained,
                                              Len(arg.constrained), 2)>>
    /\ UNCHANGED arg

UnconstrainMultivariateCall ==
    /\ pc = "start"
    /\ arg.kind = "multivariate"
    /\ pc' = "unconstrain_stationary_multivariate"
    /\ res' = <<unconstrain_stationary_multivariate(AsList(arg.constrained),
                                                    arg.error_variance,
                                                    FALSE)>>
    /\ UNCHANGED arg

\* the same call again, with transform_variance=True
UnconstrainMultivariateTransformCall ==
    /\ pc = "unconstrain_stationary_multivariate"
    /\ pc' = "transform_variance"
    /\ res' = Append(res,
                unconstrain_stationary_multivariate(AsList(arg.constrained),
                                                    arg.error_variance,
                                                    TRUE))
    /\ UNCHANGED arg

UnconstrainNext ==
    \/ UnconstrainUnivariateCall
    \/ UnconstrainSVCall
    \/ UnconstrainMultivariateCall
    \/ UnconstrainMultivariateTransformCall

UnconstrainSpec == UnconstrainInit /\ [][UnconstrainNext]_vars

(***************************************************************************)
(* C15 as stated: unconstrain_stationary_univariate raises, and returns no *)
(* result, whenever a diagonal value y[k, k] reached by the backward       *)
(* recursion, the last input coefficient included, is 1 or -1.             *)
(***************************************************************************)
\* the diagonal of y after the backward recursion on `constrained`
ReachedDiagonal(constrained) ==
    Diagonal(unconstrain_rows(
        SetRow(zeros(Len(constrained), Len(constrained)), Len(constrained),
               VNeg(constrained)),
        Len(constrained), Len(constrained)))

UnitDiagonal(constrained) ==
    \E k \in 1..Len(constrained) :
        RAbs(ReachedDiagonal(constrained)[k]) = One

C15_UnitDiagonalFails ==
    (/\ pc = "unconstrain_stationary_univariate"
     /\ UnitDiagonal(arg.constrained)) => res[1].raised

(***************************************************************************)
(* C16: _unconstrain_sv_less_than_one fails as a whole with LinAlgError,   *)
(* and returns no list, as soon as one matrix P_i of its input has a       *)
(* singular value >= 1 (I - P_i P_i' is not positive definite), and        *)
(* returns the `order` matrices otherwise; the failure raised on the       *)
(* partial autocorrelations passes through                                 *)
(* unconstrain_stationary_multivariate, which fails with it.               *)
(***************************************************************************)
\* I - P P' of a 2 x 2 matrix P is not positive definite (Sylvester)
SingularValueAtLeastOne(P) ==
    LET S == MSub(eye(2), dot(P, T(P)))
    IN  ~(/\ RLess(Zero, S[1][1])
          /\ RLess(Zero, RSub(RMul(S[1][1], S[2][2]), RMul(S[1][2], S[2][1]))))

SomeSingularValueAtLeastOne(list) ==
    \E i \in 1..Len(list) : SingularValueAtLeastOne(list[i])

FailedWith(r, type) == ~r.ok /\ r.type = type

C16_UnconstrainSVFailsAsAWhole ==
    /\ pc = "_unconstrain_sv_less_than_one" =>
        IF SomeSingularValueAtLeastOne(arg.constrained)
        THEN FailedWith(res[1], "LinAlgError")
        ELSE res[1].ok /\ Len(res[1].value) = Len(arg.constrained)
    /\ pc = "unconstrain_stationary_multivariate" =>
        LET partial_autocorrelations ==
                _compute_multivariate_pacf_from_coefficients(
                    arg.constrained, arg.error_variance,
                    Len(arg.constrained), 2)
        IN  (/\ partial_autocorrelations.ok
             /\ ExactList(partial_autocorrelations.value)
             /\ SomeSingularValueAtLeastOne(partial_autocorrelations.value))
            => FailedWith(res[1], "LinAlgError")

C16_Witness ==
    /\ pc = "_unconstrain_sv_less_than_one"
    /\ arg.constrained = <<P_small, eye(2)>>
    /\ ~SingularValueAtLeastOne(P_small)
    /\ SingularValueAtLeastOne(eye(2))
    /\ res[1] = Failed("LinAlgError")

(***************************************************************************)
(* The results of a session, by position in `res`.                         *)
(*   univariate:   1 constrained, 2 is_invertible, 3 unconstrained,        *)
(*                 4 constrained again;                                    *)
(*   multivariate: 1 constrained (list), 2 constrained (stacked),          *)
(*                 3 is_invertible, 4 unconstrained (list),                *)
(*                 5 unconstrained (stacked), 6 constrained again.         *)
(***************************************************************************)
Univariate(k) ==
    /\ arg.kind = "univariate"
    /\ pc \notin {"start", "is_invertible"}
    /\ Len(res) >= k

Multivariate(k) ==
    /\ arg.kind = "multivariate"
    /\ pc \notin {"start", "is_invertible", "sv_constrained"}
    /\ Len(res) >= k

\* the call returned and no number of its result is NaR
ExactResult(r) ==
    /\ r.ok
    /\ IF r.value[1].form = "list" THEN ExactList(r.value[1].v)
       ELSE ExactMatrix(r.value[1].v)
    /\ ExactMatrix(r.value[2])

\* the call returned, or failed on a number the model cannot represent
NoFailure(r) == r.ok \/ r.type = "Unrepresentable"

(***************************************************************************)
(* C1: for every vector x of length n >= 1,                                *)
(* unconstrain_stationary_univariate(constrain_stationary_univariate(x))   *)
(* is x, and for every stationary coefficient vector c (every result of    *)
(* constrain_stationary_univariate),                                       *)
(* constrain_stationary_univariate(unconstrain_stationary_univariate(c))   *)
(* is c.                                                                   *)
(***************************************************************************)
C1_UnivariateRoundTrip ==
    /\ Univariate(3) => res[3] = arg.unconstrained
    /\ Univariate(4) => res[4] = res[1]

C1_Witness ==
    /\ Univariate(4)
    /\ arg.unconstrained = <<Rat(3, 4), Rat(-4, 3), Rat(5, 12)>>
    /\ res[1] = <<Rat(61, 325), Rat(49, 65), Rat(-5, 13)>>
    /\ res[3] = arg.unconstrained
    /\ res[4] = res[1]

Triangular(A) ==
    \/ \A i, j \in 1..Len(A) : i < j => A[i][j] = Zero
    \/ \A i, j \in 1..Len(A) : i > j => A[i][j] = Zero

C3_ConstrainedIsInvertible ==
    /\ Univariate(2) =>
        res[2] = [raised |-> FALSE, exact |-> TRUE, value |-> TRUE]
    /\ Multivariate(3) =>
        /\ ~res[3].raised
        /\ res[3].exact => res[3].value
    /\ (pc = "is_invertible" /\ Len(arg.unconstrained) = 1) =>
        /\ ~res[1].raised
        /\ res[1].exact
        /\ arg.kind = "univariate" =>
            res[1].value = RLess(RAbs(arg.unconstrained[1]), arg.threshold)
        /\ (arg.kind = "multivariate" /\ Triangular(arg.unconstrained[1])) =>
            res[1].value = \A i \in 1..2 :
                RLess(RAbs(arg.unconstrained[1][i][i]), One)

C3_Witness ==
    /\ Multivariate(3)
    /\ arg.unconstrained = <<A_rotation, A_lower>>
    /\ arg.variance = V_correlated
    /\ ExactResult(res[1])
    /\ res[3] = [raised |-> FALSE, exact |-> TRUE, value |-> TRUE]

(***************************************************************************)
(* C4: _constrain_sv_less_than_one_python returns exactly `order`          *)
(* matrices and the largest singular value of each is < 1 (every           *)
(* eigenvalue of P_i P_i' is < 1); it does not fail.                       *)
(***************************************************************************)
C4_SingularValuesLessThanOne ==
    (pc = "sv_constrained") =>
        /\ NoFailure(res[1])
        /\ (res[1].ok /\ ExactList(res[1].value)) =>
            /\ Len(res[1].value) = Len(arg.unconstrained)
            /\ \A i \in 1..Len(res[1].value) :
                LET P == res[1].value[i]
                IN  /\ Rows(P) = 2
                    /\ Cols(P) = 2
                    /\ eigvals_all_less(dot(P, T(P)), One) # "not inside"

C4_Witness ==
    /\ pc = "sv_constrained"
    /\ arg.unconstrained = <<A_rotation, A_lower>>
    /\ res[1].ok
    /\ res[1].value = <<<<<<Rat(1, 3), Rat(2, 3)>>, <<Rat(-2, 3), Rat(1, 3)>>>>,
                        <<<<Zero, Zero>>, <<Rat(3, 5), Zero>>>>>>
    /\ eigvals_all_less(dot(A_rotation, T(A_rotation)), One) = "not inside"
    /\ \A i \in 1..2 :
        eigvals_all_less(dot(res[1].value[i], T(res[1].value[i])), One)
            = "inside"

(***************************************************************************)
(* C5: given a list of `order` k_endog x k_endog matrices,                 *)
(* constrain_stationary_multivariate and                                   *)
(* unconstrain_stationary_multivariate return a list of `order`            *)
(* k_endog x k_endog matrices; given the stacked matrix they return one    *)
(* stacked k_endog x (order * k_endog) matrix whose block i is element i   *)
(* of the list result.                                                     *)
(***************************************************************************)
SameInBothForms(listed, stacked) ==
    /\ listed.ok = stacked.ok
    /\ listed.ok =>
        LET order == Len(arg.unconstrained)
            list == listed.value[1]
            array == stacked.value[1]
        IN  /\ list.form = "list"
            /\ Len(list.v) = order
            /\ \A i \in 1..order : SquareOfSize(list.v[i], 2)
            /\ array.form = "array"
            /\ Rows(array.v) = 2
            /\ \A i \in 1..2 : Len(array.v[i]) = 2 * order
            /\ Blocks(array.v, order, 2) = list.v
            /\ listed.value[2] = stacked.value[2]

C5_RepresentationPreserved ==
    /\ Multivariate(2) => SameInBothForms(res[1], res[2])
    /\ Multivariate(5) => SameInBothForms(res[4], res[5])

C5_Witness ==
    /\ Multivariate(5)
    /\ arg.unconstrained = <<A_lower, A_lower>>
    /\ arg.variance = V_correlated
    /\ ExactResult(res[1])
    /\ res[1].value[1].form = "list"
    /\ res[2].value[1].form = "array"
    /\ res[1].value[1].v[1] # res[1].value[1].v[2]
    /\ ExactResult(res[4])
    /\ res[4].value[1].form = "list"
    /\ res[5].value[1].form = "array"
    /\ SameInBothForms(res[1], res[2])
    /\ SameInBothForms(res[4], res[5])

(***************************************************************************)
(* diff on a one-dimensional numpy array (the branch `not pandas`): the    *)
(* series is a tuple of integers.  k_seasonal_diff is None or an integer.  *)
(***************************************************************************)
\* differenced[k:] - differenced[:-k] with the lag fixed at 1
lagged_difference_unit_lag(differenced, k) ==
    Tup([t \in 1..(Len(differenced) - 1) |->
            differenced[t + 1] - differenced[t]])

\* differenced[k:] - differenced[:-k], for k >= 1
lagged_difference(differenced, k) ==
    Tup([t \in 1..(Len(differenced) - k) |->
            differenced[t + k] - differenced[t]])

\* while k_seasonal_diff > 0:
\*     differenced = differenced[k_seasons:] - differenced[:-k_seasons]
\*     k_seasonal_diff -= 1
RECURSIVE seasonal_differences(_, _, _)
seasonal_differences(differenced, k_seasonal_diff, k_seasons) ==
    IF k_seasonal_diff > 0
    THEN seasonal_differences(lagged_difference(differenced, k_seasons),
                              k_seasonal_diff - 1, k_seasons)
    ELSE differenced

\* np.diff(a, n, axis=0) for n >= 0: n times a[1:] - a[:-1]
RECURSIVE np_diff(_, _)
np_diff(a, n) ==
    IF n = 0 THEN a ELSE np_diff(lagged_difference(a, 1), n - 1)

diff(series, k_diff, k_seasonal_diff, k_seasons) ==
    np_diff(IF k_seasonal_diff # None
            THEN seasonal_differences(series, k_seasonal_diff, k_seasons)
            ELSE series,
            k_diff)

(***************************************************************************)
(* Sessions of a caller of diff: a series of 0..MaxSeries observations,    *)
(* 0..MaxDiff simple differences, None or 0..MaxDiff seasonal differences  *)
(* and a seasonal lag of 1..MaxSeasons.  The result holds the returned     *)
(* array and the caller's series as the call leaves it: diff assigns to    *)
(* its local names only.                                                   *)
(***************************************************************************)
MaxSeries == 5
MaxDiff == 2
MaxSeasons == 2

Observations == {0, 1, 3}

DiffArgs ==
    [series : {<<>>} \cup TuplesOf(Observations, MaxSeries),
     k_diff : 0..MaxDiff,
     k_seasonal_diff : {None} \cup 0..MaxDiff,
     k_seasons : 1..MaxSeasons]

DiffInit ==
    /\ pc = "start"
    /\ arg \in DiffArgs
    /\ res = <<>>

Diff ==
    /\ pc = "start"
    /\ pc' = "diff"
    /\ res' = <<[value |-> diff(arg.series, arg.k_diff, arg.k_seasonal_diff,
                                arg.k_seasons),
                 series |-> arg.series]>>
    /\ UNCHANGED arg

DiffNext == Diff

DiffSpec == DiffInit /\ [][DiffNext]_vars

(***************************************************************************)
(* C17: diff(series, d, D, s) is the series (1 - L)^d (1 - L^s)^D y: D     *)
(* seasonal differences y[t] - y[t-s], then d first differences; for a     *)
(* series of length N >= D*s + d the result has length N - D*s - d and     *)
(* its entries are the binomial expansion of the two operators; with       *)
(* k_seasonal_diff omitted no seasonal difference is applied; the series   *)
(* of the caller is not modified.                                          *)
(***************************************************************************)
RECURSIVE Binomial(_, _)
Binomial(n, k) ==
    IF k = 0 THEN 1
    ELSE IF n = 0 THEN 0
    ELSE Binomial(n - 1, k - 1) + Binomial(n - 1, k)

Sign(k) == IF k % 2 = 0 THEN 1 ELSE -1

RECURSIVE ISum(_, _)
ISum(x, n) == IF n = 0 THEN 0 ELSE ISum(x, n - 1) + x[n]

\* entry t of (1 - L)^d (1 - L^s)^D y, counted from the first entry that
\* exists
Differenced(y, d, D, s, t) ==
    ISum([e \in 1..((d + 1) * (D + 1)) |->
            LET i == (e - 1) % (d + 1)
                j == (e - 1) \div (d + 1)
            IN  Sign(i + j) * Binomial(d, i) * Binomial(D, j)
                    * y[t + d + D * s - i - j * s]],
         (d + 1) * (D + 1))

SeasonalDifferences(k_seasonal_diff) ==
    IF k_seasonal_diff = None THEN 0 ELSE k_seasonal_diff

C17_DiffIsSeasonalThenSimple ==
    pc = "diff" =>
        LET N == Len(arg.series)
            d == arg.k_diff
            D == SeasonalDifferences(arg.k_seasonal_diff)
            s == arg.k_seasons
        IN  /\ res[1].series = arg.series
            /\ N >= D * s + d =>
                /\ Len(res[1].value) = N - D * s - d
                /\ \A t \in 1..(N - D * s - d) :
                    res[1].value[t] = Differenced(arg.series, d, D, s, t)

C17_Witness ==
    /\ pc = "diff"
    /\ arg = [series |-> <<1, 3, 0, 0, 1>>, k_diff |-> 1,
              k_seasonal_diff |-> 1, k_seasons |-> 2]
    /\ res[1].value = <<-2, 4>>
    /\ res[1].series = <<1, 3, 0, 0, 1>>

(***************************************************************************)
(* Sessions of the PACF-to-coefficient transform, in its two layouts run   *)
(* side by side on the same arguments: `res` holds, in order, the state of *)
(* both before the loop, their state after every pass of                   *)
(* `for s in range(order)`, and last what both return.  The partial        *)
(* autocorrelations are 2 x 2 matrices with singular values less than one. *)
(***************************************************************************)
P_lower == <<<<Zero, Zero>>, <<Rat(3, 5), Zero>>>>
P_rotation == <<<<Rat(1, 3), Rat(2, 3)>>, <<Rat(-2, 3), Rat(1, 3)>>>>
PacfValues == {A_zero, P_lower, P_rotation}

PacfArgs ==
    [partial_autocorrelations : TuplesOf(PacfValues, MaxLag),
     error_variance : Variances,
     transform_variance : BOOLEAN]

PacfOrder == Len(arg.partial_autocorrelations)

PacfInitialVariance ==
    pacf_initial_variance(arg.error_variance, PacfOrder, 2,
                          arg.transform_variance)

PacfInit ==
    /\ pc = "start"
    /\ arg \in PacfArgs
    /\ res = <<>>

\* the statements before the loop
PacfStart ==
    /\ pc = "start"
    /\ pc' = "recursion"
    /\ res' = <<[flat |-> pacf_start(PacfInitialVariance,
                                     cholesky(PacfInitialVariance),
                                     PacfOrder, 2),
                 list |-> pacf2_start(PacfInitialVariance,
                                      cholesky(PacfInitialVariance))]>>
    /\ UNCHANGED arg

\* pass s = Len(res) - 1 of the loop
PacfStep ==
    /\ pc = "recursion"
    /\ Len(res) - 1 < PacfOrder
    /\ Last(res).flat.ok
    /\ Last(res).list.ok
    /\ res' = Append(res,
            [flat |-> pacf_step(Last(res).flat,
                                concatenate(arg.partial_autocorrelations),
                                Len(res) - 1, 2),
             list |-> pacf2_step(Last(res).list,
                                 arg.partial_autocorrelations, Len(res) - 1)])
    /\ UNCHANGED <<pc, arg>>

\* the statements after the loop, or the exception a pass raised
PacfReturn ==
    /\ pc = "recursion"
    /\ \/ Len(res) - 1 = PacfOrder
       \/ ~Last(res).flat.ok
       \/ ~Last(res).list.ok
    /\ pc' = "returned"
    /\ res' = Append(res,
            [flat |-> pacf_result(Last(res).flat, arg.error_variance,
                                  PacfOrder, 2, arg.transform_variance),
             list |-> pacf2_result(Last(res).list, arg.error_variance,
                                   PacfOrder, arg.transform_variance)])
    /\ UNCHANGED arg

PacfNext == PacfStart \/ PacfStep \/ PacfReturn

PacfSpec == PacfInit /\ [][PacfNext]_vars

\* what was returned, and the state of the loops when they ended
PacfReturned == pc = "returned" /\ Last(res).flat.ok /\ Last(res).list.ok
PacfFinal == res[Len(res) - 1]

(***************************************************************************)
(* C18 as stated: in both layouts the variance returned is the one that    *)
(* belongs to the returned coefficients (the inverse transform, given the  *)
(* coefficients and that variance, finds the partial autocorrelations      *)
(* again): with transform_variance the forward variance after the last     *)
(* pass, next to the coefficients of the recursion as they are; without,   *)
(* the error variance of the caller, and not the variance the recursion    *)
(* made out of the surrogate.                                              *)
(***************************************************************************)
\* the inverse transform takes coefficients and variance back to the
\* partial autocorrelations the call was given (where the model can
\* represent what it computes)
Associated(coefficients, variance) ==
    LET found == _compute_multivariate_pacf_from_coefficients(
                    coefficients, variance, PacfOrder, 2)
    IN  /\ found.ok \/ found.type = "Unrepresentable"
        /\ (found.ok /\ ExactList(found.value)) =>
            found.value = arg.partial_autocorrelations

C18_ReturnedVarianceIsAssociated ==
    PacfReturned =>
        /\ Associated(Blocks(Last(res).flat.value[1], PacfOrder, 2),
                      Last(res).flat.value[2])
        /\ Associated(Last(res).list.value[1], Last(res).list.value[2])
        /\ IF arg.transform_variance
           THEN /\ Last(res).flat.value[2] = PacfFinal.flat.forward_variance
                /\ Last(res).flat.value[1] = PacfFinal.flat.forwards
                /\ Last(res).list.value[2]
                    = Last(PacfFinal.list.forward_variances)
                /\ Last(res).list.value[1] = PacfFinal.list.forwards
           ELSE /\ Last(res).flat.value[2] = arg.error_variance
                /\ Last(res).list.value[2] = arg.error_variance

(***************************************************************************)
(* The final correction, in the flattened layout.                          *)
(***************************************************************************)
\* the variance the loop started from and the one it ended with
PacfStartVariance == res[1].flat.forward_variance
PacfOutputVariance == PacfFinal.flat.forward_variance

\* every one of the `order` returned blocks is transform * phi * transform^{-1}
ConjugatedBy(transform) ==
    \A k \in 0..(PacfOrder - 1) :
        dot(Block(Last(res).flat.value[1], k, 2), transform) =
        dot(transform, Block(PacfFinal.flat.forwards, k, 2))

\* T with T * chol(surrogate initial variance) = chol(output variance)
TransformFromSurrogate ==
    dot(cholesky(PacfOutputVariance).L,
        inv(cholesky(surrogate_variance(PacfOrder, 2)).L).X)

\* T with T * chol(output variance) = chol(caller's error variance)
TransformToErrorVariance ==
    dot(cholesky(arg.error_variance).L,
        inv(cholesky(PacfOutputVariance).L).X)

SameLadder(flat, list, passes) ==
    /\ \A k \in 0..(passes - 1) :
        /\ Block(flat.forwards, k, 2) = list.forwards[k + 1]
        /\ Block(flat.backwards, k, 2) = list.backwards[k + 1]
    /\ Len(list.forwards) = passes
    /\ Len(list.backwards) = passes
    /\ flat.forward_variance = Last(list.forward_variances)
    /\ flat.backward_variance = Last(list.backward_variances)

\* pass s put the new coefficient at index s and updated every k < s as
\* prev[k] - new * prev_other[s - k - 1]
Levinson(prev, now, s) ==
    \A k \in 0..(s - 1) :
        /\ now.forwards[k + 1] =
           MSub(prev.forwards[k + 1],
                dot(now.forwards[s + 1], prev.backwards[s - k]))
        /\ now.backwards[k + 1] =
           MSub(prev.backwards[k + 1],
                dot(now.backwards[s + 1], prev.forwards[s - k]))

FlatLadder(flat, passes) ==
    [forwards |-> Blocks(flat.forwards, passes, 2),
     backwards |-> Blocks(flat.backwards, passes, 2)]

\* entry i of the history is a state of the loops (and not what they return)
LoopState(i) == i \in 1..Len(res) /\ ~(pc = "returned" /\ i = Len(res))

MaxMaxlag == 3

AcovfArgs ==
    [coefficients : TuplesOf(MultiValues, MaxLag),
     error_variance : Variances,
     maxlag : {None} \cup 0..MaxMaxlag]

AcovfOrder == Len(arg.coefficients)

\* if maxlag is None: maxlag = order-1
acovf_maxlag(order, maxlag) == IF maxlag = None THEN order - 1 ELSE maxlag

AcovfInit ==
    /\ pc = "start"
    /\ arg \in AcovfArgs
    /\ res = <<>>

AcovfCall ==
    /\ pc = "start"
    /\ pc' = "_compute_multivariate_acovf_from_coefficients"
    /\ res' = <<_compute_multivariate_acovf_from_coefficients(
                    arg.coefficients, arg.error_variance, AcovfOrder, 2,
                    acovf_maxlag(AcovfOrder, arg.maxlag))>>
    /\ UNCHANGED arg

\* _acovf(constrained, error_variance, order, k_endog, maxlag=order), and
\* the loop on what it returned
PacfFromAcovf ==
    /\ pc = "_compute_multivariate_acovf_from_coefficients"
    /\ arg.maxlag = AcovfOrder
    /\ pc' = "_compute_multivariate_pacf_from_coefficients"
    /\ res' = Append(res, pacf_from_acovf(res[1], AcovfOrder))
    /\ UNCHANGED arg

AcovfNext == AcovfCall \/ PacfFromAcovf

AcovfSpec == AcovfInit /\ [][AcovfNext]_vars

AllOfSize(list, k) == \A i \in 1..Len(list) : SquareOfSize(list[i], k)

\* C21: the autocovariances returned are exactly maxlag + 1 blocks
\* (`order` blocks when maxlag is omitted) of size k_endog x k_endog; the
\* PACF inverse works from exactly order + 1 of them and returns exactly
\* `order` partial autocorrelation matrices
C21_AutocovarianceCount ==
    /\ (pc # "start" /\ res[1].ok) =>
        /\ Len(res[1].value) =
                IF arg.maxlag = None THEN AcovfOrder ELSE arg.maxlag + 1
        /\ AllOfSize(res[1].value, 2)
    /\ pc = "_compute_multivariate_pacf_from_coefficients" =>
        /\ res[1].ok => Len(res[1].value) = AcovfOrder + 1
        /\ res[2].ok =>
            /\ res[1].ok
            /\ Len(res[2].value) = AcovfOrder
            /\ AllOfSize(res[2].value, 2)

\* the coefficients [[0, 0], [0, 0]] and [[0, 0], [3/4, 0]] with the
\* identity variance: three autocovariances and two partial
\* autocorrelations, the second of them [[0, 0], [3/5, 0]]
C21_Witness ==
    /\ pc = "_compute_multivariate_pacf_from_coefficients"
    /\ arg = [coefficients |-> <<A_zero, A_lower>>,
              error_variance |-> V_identity, maxlag |-> 2]
    /\ res[1].ok
    /\ Len(res[1].value) = 3
    /\ res[2].ok
    /\ res[2].value = <<A_zero, <<<<Zero, Zero>>, <<Rat(3, 5), Zero>>>>>>

(***************************************************************************)
(* C22: unconstrain_stationary_multivariate returns as the second element  *)
(* of its result the error variance it was given, and the call with        *)
(* transform_variance=True returns what the call without it returns, the   *)
(* same unconstrained matrices and variance or the same exception.         *)
(***************************************************************************)
C22_VarianceReturnedUnchanged ==
    /\ pc \in {"unconstrain_stationary_multivariate", "transform_variance"} =>
        \A i \in 1..Len(res) :
            res[i].ok => res[i].value[2] = arg.error_variance
    /\ pc = "transform_variance" => res[2] = res[1]

\* the coefficient [[3/5, 0], [0, 0]] with the variance [[4, 0], [0, 9]]:
\* both calls return [[3/4, 0], [0, 0]] and [[4, 0], [0, 9]]
C22_Witness ==
    /\ pc = "transform_variance"
    /\ arg.constrained = <<P_small>>
    /\ arg.error_variance = V_scaled
    /\ res[1].ok
    /\ res[1].value = <<AsList(<<<<<<Rat(3, 4), Zero>>, <<Zero, Zero>>>>>>),
                        V_scaled>>
    /\ res[2] = res[1]

(***************************************************************************)
(* The module body and constrain_stationary_multivariate_python.  The      *)
(* top-level statements that bind or read the names the pure-Python        *)
(* orchestrator uses are run in the order of the file; a statement that    *)
(* reads a name not yet bound raises NameError and the import fails.  A    *)
(* `def` binds its name and reads nothing until it is called.              *)
(***************************************************************************)
Statement(line, binds, reads) == [line |-> line, binds |-> binds, reads |-> reads]

\* if not old_scipy_compat: def constrain_stationary_multivariate ...
\* else: the three assignments of the fallback branch
module_branch(old_scipy_compat) ==
    IF ~old_scipy_compat
    THEN <<Statement(696, {"constrain_stationary_multivariate"}, {})>>
    ELSE <<Statement(738, {"_compute_coefficients_from_multivariate_pacf"},
                     {"_compute_coefficients_from_multivariate_pacf_python"}),
           Statement(740, {"_constrain_sv_less_than_one"},
                     {"_constrain_sv_less_than_one_python"}),
           Statement(741, {"constrain_stationary_multivariate"},
                     {"constrain_stationary_multivariate_python"})>>

module_statements(old_scipy_compat) ==
    <<Statement(376, {"_constrain_sv_less_than_one_python"}, {}),
      Statement(401, {"_compute_coefficients_from_multivariate_pacf_python"}, {}),
      Statement(553, {"_compute_coefficients_from_multivariate_pacf_python2"}, {})>>
    \o module_branch(old_scipy_compat)
    \o <<Statement(744, {"constrain_stationary_multivariate_python"}, {}),
          Statement(832, {"_unconstrain_sv_less_than_one"}, {}),
          Statement(859, {"_compute_multivariate_acovf_from_coefficients"}, {}),
          Statement(911, {"_compute_multivariate_pacf_from_coefficients"}, {}),
          Statement(1066, {"unconstrain_stationary_multivariate"}, {})>>

\* the names bound when the module body has run, or the exception
RECURSIVE exec_module(_, _, _)
exec_module(statements, i, names) ==
    IF i > Len(statements) THEN [ok |-> TRUE, value |-> names]
    ELSE IF ~(statements[i].reads \subseteq names) THEN Failed("NameError")
    ELSE exec_module(statements, i + 1, names \cup statements[i].binds)

\* np.concatenate(a, axis=1) of a 2-dim ndarray `a`: the sequence
\* concatenated is that of the rows of `a`, 1-dim arrays, which have no
\* axis 1.  numpy raises AxisError; the numpy releases that only warned
\* ("axis != 0 for ndim == 1") joined the rows along axis 0.
RECURSIVE rows_joined(_, _)
rows_joined(a, i) ==
    IF i > Len(a) THEN <<>> ELSE a[i] \o rows_joined(a, i + 1)

AsVector(v) == [form |-> "vector", v |-> v]

concatenate_rows(a, legacy_axis) ==
    IF legacy_axis THEN [ok |-> TRUE, value |-> AsVector(rows_joined(a, 1))]
    ELSE Failed("AxisError")

\* if not use_list: constrained = np.concatenate(constrained, axis=1)
\* return constrained, variance
constrain_python_concatenated(joined, variance) ==
    IF ~joined.ok THEN joined
    ELSE [ok |-> TRUE, value |-> <<joined.value, variance>>]

constrain_python_returned(use_list, made, legacy_axis) ==
    IF ~made.ok THEN made
    ELSE IF use_list
        THEN [ok |-> TRUE, value |-> <<AsArray(made.value[1]), made.value[2]>>]
    ELSE constrain_python_concatenated(
            concatenate_rows(made.value[1], legacy_axis), made.value[2])

\* constrained, variance = _compute_coefficients_from_multivariate_pacf(
\*     sv_constrained, variance, order, k_endog, transform_variance)
constrain_python_sv_constrained(use_list, sv_constrained, variance, order, k_endog, transform_variance, names, legacy_axis) ==
    IF ~sv_constrained.ok THEN sv_constrained
    ELSE IF "_compute_coefficients_from_multivariate_pacf" \notin names
        THEN Failed("NameError")
    ELSE constrain_python_returned(use_list,
            _compute_coefficients_from_multivariate_pacf_python(
                sv_constrained.value, variance, order, k_endog,
                transform_variance),
            legacy_axis)

\* sv_constrained = _constrain_sv_less_than_one(unconstrained, order, k_endog)
constrain_python_list(use_list, unconstrained, variance, order, k_endog, transform_variance, names, legacy_axis) ==
    IF "_constrain_sv_less_than_one" \notin names THEN Failed("NameError")
    ELSE constrain_python_sv_constrained(use_list,
            _constrain_sv_less_than_one_python(unconstrained, order, k_endog),
            variance, order, k_endog, transform_variance, names, legacy_axis)

\* `names` are the globals of the module when the call is made
constrain_stationary_multivariate_python(unconstrained, variance, transform_variance, names, legacy_axis) ==
    IF unconstrained.form = "list"
    THEN constrain_python_list(TRUE, unconstrained.v, variance,
            Len(unconstrained.v), Rows(unconstrained.v[1]),
            transform_variance, names, legacy_axis)
    ELSE constrain_python_list(FALSE,
            Blocks(unconstrained.v,
                   Cols(unconstrained.v) \div Rows(unconstrained.v),
                   Rows(unconstrained.v)),
            variance, Cols(unconstrained.v) \div Rows(unconstrained.v),
            Rows(unconstrained.v), transform_variance, names, legacy_axis)

(***************************************************************************)
(* Sessions of the pure-Python orchestrator: the module is imported where  *)
(* scipy provides find_best_blas_type or where it does not                 *)
(* (old_scipy_compat), the caller may bind the two helper names as the     *)
(* fallback branch does, and calls constrain_stationary_multivariate_python*)
(* on a list or a stacked matrix.  res[1] is what the import gave, the     *)
(* names bound or the exception.                                           *)
(***************************************************************************)
PythonArgs ==
    [matrices : TuplesOf(MultiValues, MaxLag),
     use_list : BOOLEAN,
     variance : Variances,
     transform_variance : BOOLEAN,
     old_scipy_compat : BOOLEAN,
     legacy_axis : BOOLEAN]

\* what the caller passes: the list, or the matrices stacked
PythonUnconstrained ==
    IF arg.use_list THEN AsList(arg.matrices)
    ELSE AsArray(concatenate(arg.matrices))

PythonInit ==
    /\ pc = "start"
    /\ arg \in PythonArgs
    /\ res = <<>>

ImportTools ==
    /\ pc = "start"
    /\ res' = <<exec_module(module_statements(arg.old_scipy_compat), 1, {})>>
    /\ pc' = IF res'[1].ok THEN "imported" ELSE "import_failed"
    /\ UNCHANGED arg

\* the caller runs the assignments of tools.py:738-740 on the module
HelperNames ==
    {"_compute_coefficients_from_multivariate_pacf",
     "_constrain_sv_less_than_one"}

WirePythonHelpers ==
    /\ pc = "imported"
    /\ pc' = "wired"
    /\ res' = <<[res[1] EXCEPT !.value = @ \cup HelperNames]>>
    /\ UNCHANGED arg

ConstrainPythonCall ==
    /\ pc \in {"imported", "wired"}
    /\ "constrain_stationary_multivariate_python" \in res[1].value
    /\ pc' = IF pc = "wired" THEN "called_wired" ELSE "called"
    /\ res' = Append(res,
                constrain_stationary_multivariate_python(
                    PythonUnconstrained, arg.variance, arg.transform_variance,
                    res[1].value, arg.legacy_axis))
    /\ UNCHANGED arg

PythonNext == ImportTools \/ WirePythonHelpers \/ ConstrainPythonCall

PythonSpec == PythonInit /\ [][PythonNext]_vars

\* two results are the same exception, or the same representation, the
\* same coefficients and the same variance
SameResult(r, q) ==
    /\ r.ok = q.ok
    /\ r.ok =>
        /\ r.value[1].form = q.value[1].form
        /\ r.value[1].v = q.value[1].v
        /\ r.value[2] = q.value[2]

\* a list of `order` k_endog x k_endog matrices for a list, one
\* k_endog x (k_endog * order) matrix for a stacked matrix
CallerRepresentation(r, unconstrained) ==
    IF unconstrained.form = "list"
    THEN /\ r.value[1].form = "list"
         /\ Len(r.value[1].v) = Len(unconstrained.v)
         /\ AllOfSize(r.value[1].v, 2)
    ELSE /\ r.value[1].form = "array"
         /\ Rows(r.value[1].v) = 2
         /\ Cols(r.value[1].v) = Cols(unconstrained.v)

\* C23 as stated: where the fallback branch is taken the import binds the
\* orchestrator to its helpers, and a call of
\* constrain_stationary_multivariate_python with the helpers bound returns
\* the coefficients in the caller's representation, the same result as
\* constrain_stationary_multivariate on the same input
C23_PythonOrchestratorConverts ==
    /\ arg.old_scipy_compat => pc # "import_failed"
    /\ pc = "called_wired" =>
        /\ Last(res).ok => CallerRepresentation(Last(res), PythonUnconstrained)
        /\ SameResult(Last(res),
                      constrain_stationary_multivariate(
                          PythonUnconstrained, arg.variance,
                          arg.transform_variance))

====
